---- MODULE Spec2Model ----
(***************************************************************************)
(* MarketTwits summarizer: the daily-digest pipeline (channel retrieval,   *)
(* digest generation, fan-out delivery, digest persistence) as a state     *)
(* machine.  Two orchestrators exist in the repository: the modular one    *)
(* (src/src/services/daily_job.py) and the single-file Lambda one          *)
(* (src/aws_lambda.py); `impl` says which one a behaviour runs.            *)
(*                                                                         *)
(* Texts are sequences of lexemes (see Strip, json_loads); instants are    *)
(* records [s, us]: whole seconds since the epoch and microseconds.        *)
(***************************************************************************)
EXTENDS Integers, Sequences, FiniteSets, TLC

VARIABLES
    inbound,            \* the inbound chat message of the interactive path
    entry,              \* the function a behaviour invokes
    impl,               \* "modular" (daily_job.py) or "lambda" (aws_lambda.py)
    env,                \* names of the environment variables that are set
    now,                \* datetime.now(timezone.utc) of the run
    history,            \* the channel: blocks of messages, newest first
    roster,             \* table chat_ids (rows in table order)
    digests,            \* table twits_summary (rows in insertion order)
    pc,                 \* position in the invoked function
    client,             \* TelegramDumper.client is not None
    is_connected,       \* TelegramDumper._is_connected
    pos,                \* messages blocks of the iterator consumed so far
    filtered_messages,  \* dump_news_for_date's accumulator
    dumped,             \* Some(what dump_news_for_date returned), NoneVal before
    news_items,         \* run_daily_job_async's news_items
    summary,            \* run_daily_job_async's summary (NoneVal or a Summary)
    message,            \* the rendered digest
    chat_ids,           \* the roster as fetched by the run
    idx,                \* fan-out loop position in chat_ids
    success_count,      \* _send_and_save_summary's success_count
    exc,                \* an exception is propagating out of the try body
    retval,             \* the value of the return statement being executed
    result,             \* Some(what the invoked function returned), NoneVal before
    log                 \* calls made to the collaborators, in order

vars == <<inbound, entry, impl, env, now, history, roster, digests, pc, client,
          is_connected, pos, filtered_messages, dumped, news_items, summary,
          message, chat_ids, idx, success_count, exc, retval, result, log>>

NoneVal == [none |-> TRUE]

\* A value that is present (Optional[...] holding v)
Some(v) == [some |-> v]

(***************************************************************************)
(* Bounds of the model.                                                    *)
(***************************************************************************)
MaxBlocks == 2          \* blocks of messages in a channel history
MaxRoster == 2          \* distinct subscriber ids

(***************************************************************************)
(* Instants.                                                               *)
(***************************************************************************)
SecondsPerDay == 86400
MaxMicrosecond == 999999
ScanLimit == 2000
MaxLength == 8000

Instant(s, us) == [s |-> s, us |-> us]

Lt(a, b) == a.s < b.s \/ (a.s = b.s /\ a.us < b.us)

Le(a, b) == Lt(a, b) \/ a = b

DayOf(t) == t.s \div SecondsPerDay

\* datetime.replace(hour=h, minute=m, second=sec, microsecond=us) on a UTC datetime
ReplaceTime(t, h, m, sec, us) ==
    Instant(DayOf(t) * SecondsPerDay + h * 3600 + m * 60 + sec, us)

\* _calculate_target_date: yesterday = now_utc - timedelta(days=1)
calculate_target_date(now_utc) == Instant(now_utc.s - SecondsPerDay, now_utc.us)

target_start(target_date) == ReplaceTime(target_date, 0, 0, 0, 0)

target_end(target_date) == ReplaceTime(target_date, 23, 59, 59, MaxMicrosecond)

(***************************************************************************)
(* Texts: sequences of lexemes.  Ch(" ") and Ch("\n") are whitespace, any   *)
(* other Ch(w) is visible text, Doc(v) is the text of the JSON document v, *)
(* Num(k) the decimal digits of k, DateStr(d) the %Y-%m-%d form of day d.  *)
(***************************************************************************)
Ch(c) == [ch |-> c]

Doc(v) == [json |-> v]

Num(k) == [num |-> k]

DateStr(d) == [ymd |-> d]

\* n copies of the character c
Rep(c, n) == [rep |-> c, n |-> n]

NL == Ch("\n")

IsSpace(c) == c = Ch(" ") \/ c = NL

RECURSIVE LStrip(_)
LStrip(t) == IF t # <<>> /\ IsSpace(Head(t)) THEN LStrip(Tail(t)) ELSE t

RECURSIVE RStrip(_)
RStrip(t) ==
    IF t # <<>> /\ IsSpace(t[Len(t)]) THEN RStrip(SubSeq(t, 1, Len(t) - 1)) ELSE t

\* str.strip()
Strip(t) == RStrip(LStrip(t))

\* truth value of a str
Truthy(t) == t # <<>>

\* the number of characters of a lexeme of a message text
CharLen(c) == IF "rep" \in DOMAIN c THEN c.n ELSE Len(c.ch)

RECURSIVE TextLen(_)
\* len(t)
TextLen(t) == IF t = <<>> THEN 0 ELSE CharLen(Head(t)) + TextLen(Tail(t))

RECURSIVE Prefix(_, _)
\* t[:k]
Prefix(t, k) ==
    IF t = <<>> \/ k <= 0 THEN <<>>
    ELSE IF CharLen(Head(t)) <= k
         THEN <<Head(t)>> \o Prefix(Tail(t), k - CharLen(Head(t)))
         ELSE IF "rep" \in DOMAIN Head(t)
              THEN <<Rep(Head(t).rep, k)>>
              ELSE <<Ch(SubSeq(Head(t).ch, 1, k))>>

(***************************************************************************)
(* The channel source.  A history is a sequence of blocks, newest first;   *)
(* a block stands for n consecutive messages with the same date and text.  *)
(* date is an instant, or NoneVal for a message without date.              *)
(***************************************************************************)
Block(n, date, text) == [n |-> n, date |-> date, text |-> text]

RECURSIVE Take(_, _)
Take(h, limit) ==
    IF h = <<>> \/ limit = 0 THEN <<>>
    ELSE IF Head(h).n <= limit
         THEN <<Head(h)>> \o Take(Tail(h), limit - Head(h).n)
         ELSE <<[Head(h) EXCEPT !.n = limit]>>

\* client.iter_messages(channel, offset_date=..., limit=...): the messages not
\* newer than offset_date, newest first, at most `limit` of them.
iter_messages(h, offset_date, limit) ==
    Take(SelectSeq(h, LAMBDA b : b.date = NoneVal \/ Le(b.date, offset_date)), limit)

\* The iterator dump_news_for_date loops over.
Stream ==
    iter_messages(history, target_end(calculate_target_date(now)), ScanLimit)

NewsItem(b) == [n |-> b.n, text |-> b.text, date |-> b.date]

(***************************************************************************)
(* The log of collaborator calls.                                          *)
(***************************************************************************)
Call(op, arg, ok) == [op |-> op, arg |-> arg, ok |-> ok]

Calls(op) == SelectSeq(log, LAMBDA c : c.op = op)

(***************************************************************************)
(* TelegramDumper.dump_news_for_date                                       *)
(***************************************************************************)
\* _fetch_news_for_date, lines 76-81: an empty result becomes None.
fetch_news_for_date(items) == IF items = <<>> THEN NoneVal ELSE Some(items)

\* Mutant: the run reports success when no news was found.
NoNewsReturnTrue == TRUE

\* run_daily_job_async, line 230: the value returned when no news was found.
NoNewsReturn == FALSE

\* What follows the return of dump_news_for_date(...) with value `items`: the
\* end of the call, or lines 228-230 of run_daily_job_async.
DumpReturn(items) ==
    /\ dumped' = Some(items)
    /\ IF entry = "dump_news_for_date"
       THEN /\ result' = Some(items)
            /\ pc' = "done"
            /\ UNCHANGED <<news_items, retval>>
       ELSE IF fetch_news_for_date(items) = NoneVal
       THEN /\ retval' = NoNewsReturn
            /\ pc' = "finally"
            /\ UNCHANGED <<news_items, result>>
       ELSE /\ news_items' = fetch_news_for_date(items).some
            /\ pc' = "summarize"
            /\ UNCHANGED <<retval, result>>

\* Mutant: dump_news_for_date connects on every call.
NeedsConnectAlways(connected) == TRUE

\* line 121: if not self._is_connected
NeedsConnect(connected) == ~connected

\* lines 111-123: the window, then the lazy connect (TelegramDumper.connect,
\* which sets _is_connected on success and leaves it as it is otherwise).
DumpStart ==
    /\ pc = "dump"
    /\ IF ~NeedsConnect(is_connected)
       THEN /\ pc' = "get_entity"
            /\ UNCHANGED <<client, is_connected, log, result, dumped, news_items, retval>>
       ELSE \E outcome \in {"ok", "import_error", "start_error"} :
            /\ log' = Append(log, Call("connect", outcome, outcome = "ok"))
            /\ client' = (client \/ outcome # "import_error")
            /\ is_connected' = (is_connected \/ outcome = "ok")
            /\ IF outcome = "ok"
               THEN pc' = "get_entity" /\ UNCHANGED <<result, dumped, news_items, retval>>
               ELSE DumpReturn(<<>>)
    /\ UNCHANGED <<inbound, entry, impl, env, now, history, roster, digests, pos,
                   filtered_messages, summary, message, chat_ids, idx,
                   success_count, exc>>

\* line 125: channel = await self.client.get_entity(...)
GetEntity ==
    /\ pc = "get_entity"
    /\ \E ok \in BOOLEAN :
        /\ log' = Append(log, Call("get_entity", 0, ok))
        /\ IF ok
           THEN /\ pc' = "scan"
                /\ pos' = 0
                /\ filtered_messages' = <<>>
                /\ UNCHANGED <<result, dumped, news_items, retval>>
           ELSE /\ DumpReturn(<<>>)
                /\ UNCHANGED <<pos, filtered_messages>>
    /\ UNCHANGED <<inbound, entry, impl, env, now, history, roster, digests, client,
                   is_connected, summary, message, chat_ids, idx,
                   success_count, exc>>

\* Mutant: the loop has no lower-bound check (no break).
ScanVerdictNoBreak(b, start) ==
    IF b.date = NoneVal THEN "continue"
    ELSE IF Truthy(b.text) THEN "append"
    ELSE "skip"

\* The loop body's decision for one message (lines 134-151).
ScanVerdict(b, start) ==
    IF b.date = NoneVal THEN "continue"
    ELSE IF Lt(b.date, start) THEN "break"
    ELSE IF Truthy(b.text) THEN "append"
    ELSE "skip"

\* Mutant: a fault of the source ends the scan with what was accepted so far.
OnScanFaultPartial(accepted) == accepted

\* lines 156-158: except Exception: return [], whatever was accepted so far
OnScanFault(accepted) == <<>>

\* lines 129-158: one turn of the async for (a block of equal messages), the
\* end of the iteration, or a fault of the source.
Scan ==
    /\ pc = "scan"
    /\ \/ \* the source raises: except Exception -> return []
          /\ log' = Append(log, Call("iter", pos, FALSE))
          /\ DumpReturn(OnScanFault(filtered_messages))
          /\ UNCHANGED <<pos, filtered_messages>>
       \/ /\ pos >= Len(Stream)
          /\ DumpReturn(filtered_messages)
          /\ UNCHANGED <<pos, filtered_messages, log>>
       \/ /\ pos < Len(Stream)
          /\ LET b == Stream[pos + 1]
                 v == ScanVerdict(b, target_start(calculate_target_date(now)))
             IN /\ log' = Append(log, Call("iter", pos, TRUE))
                /\ pos' = pos + 1
                /\ IF v = "break"
                   THEN DumpReturn(filtered_messages) /\ UNCHANGED filtered_messages
                   ELSE /\ filtered_messages' =
                              IF v = "append"
                              THEN Append(filtered_messages, NewsItem(b))
                              ELSE filtered_messages
                        /\ UNCHANGED <<pc, result, dumped, news_items, retval>>
    /\ UNCHANGED <<inbound, entry, impl, env, now, history, roster, digests, client,
                   is_connected, summary, message, chat_ids, idx,
                   success_count, exc>>

(***************************************************************************)
(* NewsSummarizer.summarize_news                                           *)
(***************************************************************************)
Summary(date, summary_text, news_count, key_topics) ==
    [date |-> date, summary_text |-> summary_text, news_count |-> news_count,
     key_topics |-> key_topics]

JObject(fields) == [kind |-> "object", fields |-> fields]

JArray == [kind |-> "array"]

\* a JSON string and a JSON number: documents that, like an array, are not objects
JString == [kind |-> "string"]

JNumber == [kind |-> "number"]

IsDoc(c) == "json" \in DOMAIN c

\* json.loads: a text is a JSON document iff it is exactly one document lexeme
\* (json.loads itself skips surrounding whitespace).
json_loads(content) ==
    IF Len(Strip(content)) = 1 /\ IsDoc(Strip(content)[1])
    THEN [ok |-> TRUE, value |-> Strip(content)[1].json]
    ELSE [ok |-> FALSE]

\* dict.get(key, default)
DictGet(d, key, default) ==
    IF key \in DOMAIN d.fields THEN d.fields[key] ELSE default

RECURSIVE Count(_)
\* len(news_items), a block counting for its n messages
Count(items) == IF items = <<>> THEN 0 ELSE Head(items).n + Count(Tail(items))

\* Mutant: the filter tests the text without trimming it.
news_texts_untrimmed(items) == SelectSeq(items, LAMBDA it : Truthy(it.text))

\* line 88: the texts that are not blank
news_texts(items) == SelectSeq(items, LAMBDA it : Truthy(Strip(it.text)))

\* the items of a list one by one (an item of multiplicity n becomes n items)
RECURSIVE Expand(_)
Expand(items) ==
    IF items = <<>> THEN <<>>
    ELSE LET it == Head(items)
         IN  <<[it EXCEPT !.n = 1]>>
                 \o Expand(IF it.n > 1
                            THEN <<[it EXCEPT !.n = it.n - 1]>> \o Tail(items)
                            ELSE Tail(items))

RECURSIVE Join(_, _)
\* sep.join(texts)
Join(texts, sep) ==
    IF texts = <<>> THEN <<>>
    ELSE IF Len(texts) = 1 THEN Head(texts)
    ELSE Head(texts) \o sep \o Join(Tail(texts), sep)

\* line 88 as a list of str
TextsOf(items) == [i \in 1..Len(Expand(items)) |-> Expand(items)[i].text]

\* line 95: combined_text = "\n\n".join(news_texts)
combined_text(items) == Join(TextsOf(news_texts(items)), <<NL, NL>>)

\* Mutant: the truncated text is cut one character late.
prompt_texts_late_cut(items) ==
    IF TextLen(combined_text(items)) > MaxLength
    THEN << Prefix(combined_text(items), MaxLength + 1) \o <<Ch("...")>> >>
    ELSE TextsOf(news_texts(items))

\* lines 94-98: the news_texts handed to _create_prompt
prompt_texts(items) ==
    IF TextLen(combined_text(items)) > MaxLength
    THEN << Prefix(combined_text(items), MaxLength) \o <<Ch("...")>> >>
    ELSE TextsOf(news_texts(items))

\* the prefix of a bullet: the bullet character (written * here) and a space
BulletPrefix == Ch("* ")

\* _create_prompt, line 34: all_news = "\n".join([f"{bullet} {item}" ...])
all_news(texts) ==
    Join([ i \in 1..Len(texts) |-> <<BulletPrefix>> \o texts[i] ], <<NL>>)

\* Mutant: the digest counts the items that have text.
NewsCountWithText(items) == Count(news_texts(items))

\* line 129: news_count=len(news_items)
NewsCount(items) == Count(items)

\* Mutant: a provider fault yields a placeholder digest instead of None.
OnProviderFaultPlaceholder(items, date) ==
    Summary(date, <<Ch("Summary unavailable")>>, Count(items), <<>>)

\* lines 136-141: what summarize_news returns when the provider faults
OnProviderFault(items, date) == NoneVal

\* Mutant: the fallback drops the reply text.
OnJSONDecodeErrorEmpty(content) == [summary_text |-> <<>>, key_topics |-> <<>>]

\* lines 122-124: the fallback when the reply is not JSON
OnJSONDecodeError(content) == [summary_text |-> content, key_topics |-> <<>>]

\* lines 115-131: from the reply's content to the Summary
ParseReply(items, date, reply) ==
    LET content == Strip(reply)
        parsed == json_loads(content)
    IN  IF ~parsed.ok
        THEN Summary(date, OnJSONDecodeError(content).summary_text,
                     NewsCount(items), OnJSONDecodeError(content).key_topics)
        ELSE IF parsed.value.kind # "object"
        THEN NoneVal    \* .get raises AttributeError: except Exception
        ELSE Summary(date, DictGet(parsed.value, "summary", content),
                     NewsCount(items), DictGet(parsed.value, "key_topics", <<>>))

\* The outcomes of the provider: the library is missing (or the client cannot be
\* built), the completion call raises, or it returns a reply (with a content,
\* or with None for content).
ApiError == [error |-> TRUE]

\* a response whose message.content is None
NoContent == [nocontent |-> TRUE]

Reply(content) == [content |-> content]

\* summarize_news(news_items, target_date): [value, called, prompt], `called`
\* saying whether client.chat.completions.create was invoked, and `prompt`
\* being the news_texts its prompt was built from (NoneVal when not invoked).
summarize_news(items, date, lib, api) ==
    IF lib # "ok"
    THEN [value |-> OnProviderFault(items, date), called |-> FALSE,
          prompt |-> NoneVal]
    ELSE IF news_texts(items) = <<>>
    THEN [value |-> NoneVal, called |-> FALSE, prompt |-> NoneVal]
    ELSE IF api = ApiError \/ api = NoContent
    THEN [value |-> OnProviderFault(items, date), called |-> TRUE,
          prompt |-> Some(prompt_texts(items))]
    ELSE [value |-> ParseReply(items, date, api.content), called |-> TRUE,
          prompt |-> Some(prompt_texts(items))]

(***************************************************************************)
(* _format_summary_message                                                 *)
(***************************************************************************)
RECURSIVE TopicLines(_, _)
\* '\n'.join(f"{idx+1}. {topic}" ...), from number k on
TopicLines(topics, k) ==
    IF topics = <<>> THEN <<>>
    ELSE <<Num(k), Ch(". ")>> \o Head(topics)
             \o (IF Len(topics) > 1 THEN <<NL>> ELSE <<>>)
             \o TopicLines(Tail(topics), k + 1)

\* Mutant: the topics are numbered from 0.
format_summary_message_from_zero(sm) ==
    <<Ch("<b>Daily Market Summary - "), DateStr(sm.date), Ch("</b>"), NL, NL>>
        \o sm.summary_text \o <<NL, NL>>
        \o (IF sm.key_topics # <<>>
            THEN <<Ch("<b>Key Topics:</b>"), NL>>
                     \o TopicLines(sm.key_topics, 0) \o <<NL, NL>>
            ELSE <<>>)
        \o <<Ch("Based on "), Num(sm.news_count), Ch(" news items")>>

format_summary_message(sm) ==
    <<Ch("<b>Daily Market Summary - "), DateStr(sm.date), Ch("</b>"), NL, NL>>
        \o sm.summary_text \o <<NL, NL>>
        \o (IF sm.key_topics # <<>>
            THEN <<Ch("<b>Key Topics:</b>"), NL>>
                     \o TopicLines(sm.key_topics, 1) \o <<NL, NL>>
            ELSE <<>>)
        \o <<Ch("Based on "), Num(sm.news_count), Ch(" news items")>>

\* _format_summary_message(summary) called on its own
FormatMessage ==
    /\ pc = "format"
    /\ message' = format_summary_message(summary)
    /\ result' = Some(format_summary_message(summary))
    /\ pc' = "done"
    /\ UNCHANGED <<inbound, entry, impl, env, now, history, roster, digests, client,
                   is_connected, pos, filtered_messages, dumped, news_items,
                   summary, chat_ids, idx, success_count, exc, retval, log>>

(***************************************************************************)
(* Configuration and the store's connection parameters.                    *)
(***************************************************************************)
\* Config.validate: the variables it requires
RequiredVars ==
    {"TELEGRAM_API_ID", "TELEGRAM_API_HASH", "TELEGRAM_SESSION_STRING",
     "TELEGRAM_BOT_TOKEN", "OPENAI_API_KEY"}

\* _get_db_params: the variables the store's connection requires
DbVars == {"DB_HOST", "DB_NAME", "DB_USER", "DB_PASSWORD"}

\* Config.validate raises ValueError iff a required variable is missing
validate_config(e) == RequiredVars \subseteq e

\* get_connection: without its parameters it raises before connecting;
\* with them the connection or the query may still fail.
DbOutcomes(e) == IF DbVars \subseteq e THEN BOOLEAN ELSE {FALSE}

(***************************************************************************)
(* run_daily_job_async                                                     *)
(***************************************************************************)
\* lines 216-221
Validate ==
    /\ pc = "validate"
    /\ IF validate_config(env)
       THEN pc' = "dump" /\ UNCHANGED result
       ELSE pc' = "done" /\ result' = Some(FALSE)
    /\ UNCHANGED <<inbound, entry, impl, env, now, history, roster, digests, client,
                   is_connected, pos, filtered_messages, dumped, news_items,
                   summary, message, chat_ids, idx, success_count, exc, retval,
                   log>>

\* line 235: the value returned when no summary was produced
NoSummaryReturn == FALSE

\* The replies a provider may give.
Replies ==
    { <<Ch("Markets were calm today.")>>,
      <<Ch(" "), Ch("Markets"), Ch(" "), Ch("calm"), NL>>,
      <<Doc(JObject([summary |-> <<Ch("S")>>,
                     key_topics |-> << <<Ch("A")>>, <<Ch("B")>> >>]))>>,
      <<Ch("~~~json"), NL, Doc(JObject([summary |-> <<Ch("S")>>])), NL, Ch("~~~")>>,
      <<NL, Doc(JObject([key_topics |-> << <<Ch("A")>> >>])), Ch(" ")>>,
      <<Doc(JArray)>>,
      <<Doc(JString)>>,
      <<Ch(" "), Doc(JNumber), NL>> }

ApiOutcomes == {ApiError, NoContent} \cup { Reply(r) : r \in Replies }

\* lines 232-238: summarize_news, then _format_summary_message
CreateSummary ==
    /\ pc = "summarize"
    /\ \E lib \in {"ok", "import_error"}, api \in ApiOutcomes :
        LET r == summarize_news(news_items, DayOf(calculate_target_date(now)),
                                lib, api)
        IN  /\ log' = Append(log, Call("summarize",
                                        [lib |-> lib, api |-> api, called |-> r.called,
                                         prompt |-> r.prompt,
                                         all_news |-> IF r.prompt = NoneVal THEN NoneVal
                                                      ELSE Some(all_news(r.prompt.some))],
                                        r.value # NoneVal))
            /\ summary' = r.value
            /\ IF entry = "summarize_news"
               THEN /\ result' = Some(r.value)
                    /\ pc' = "done"
                    /\ UNCHANGED <<message, retval>>
               ELSE IF r.value = NoneVal
               THEN /\ retval' = NoSummaryReturn
                    /\ pc' = "finally"
                    /\ UNCHANGED <<message, result>>
               ELSE /\ message' = format_summary_message(r.value)
                    /\ pc' = "get_chat_ids"
                    /\ UNCHANGED <<retval, result>>
    /\ UNCHANGED <<inbound, entry, impl, env, now, history, roster, digests, client,
                   is_connected, pos, filtered_messages, dumped, news_items,
                   chat_ids, idx, success_count, exc>>

\* line 242: chat_ids = get_chat_ids(); a fault propagates to the finally
GetChatIds ==
    /\ pc = "get_chat_ids"
    /\ \E ok \in DbOutcomes(env) :
        /\ log' = Append(log, Call("get_chat_ids", 0, ok))
        /\ IF ok
           THEN /\ chat_ids' = roster
                /\ idx' = 0
                /\ success_count' = 0
                /\ pc' = IF impl = "modular" THEN "save" ELSE "send"
                /\ UNCHANGED exc
           ELSE /\ exc' = TRUE
                /\ pc' = "finally"
                /\ UNCHANGED <<chat_ids, idx, success_count>>
    /\ UNCHANGED <<inbound, entry, impl, env, now, history, roster, digests, client,
                   is_connected, pos, filtered_messages, dumped, news_items,
                   summary, message, retval, result>>

\* _send_and_save_summary's return value
SendResult(count) == count > 0

\* Mutant: the table keeps one row, which a save overwrites.
add_message_to_database_overwrite(d, now_utc, m, ok) ==
    IF ok THEN <<[timestamp |-> now_utc, message |-> m]>> ELSE d

\* add_message_to_database: INSERT INTO twits_summary (timestamp, message);
\* the table after the call (a fault rolls back and is raised)
add_message_to_database(d, now_utc, m, ok) ==
    IF ok THEN Append(d, [timestamp |-> now_utc, message |-> m]) ELSE d

\* daily_job.py lines 171-176, aws_lambda.py lines 567-575:
\* add_message_to_database in a try whose except swallows the fault
Save ==
    /\ pc = "save"
    /\ \E ok \in DbOutcomes(env) :
        /\ log' = Append(log, Call("save", message, ok))
        /\ digests' = add_message_to_database(digests, now, message, ok)
    /\ IF impl = "modular"
       THEN pc' = "send" /\ UNCHANGED retval
       ELSE pc' = "finally" /\ retval' = SendResult(success_count)
    /\ UNCHANGED <<inbound, entry, impl, env, now, history, roster, client,
                   is_connected, pos, filtered_messages, dumped, news_items,
                   summary, message, chat_ids, idx, success_count, exc, result>>

\* Mutant: an exception of a send ends the loop (no try/except around it).
AfterSendAbort(i, outcome, total) == IF outcome = "raise" THEN total ELSE i + 1

\* What the loop does after one send: the next recipient, whatever the outcome
\* (the try/except of lines 189-197).
AfterSend(i, outcome, total) == i + 1

\* Mutant: a run without recipients counts as a success.
NoRecipientsReturnTrue == TRUE

\* daily_job.py lines 183-185, aws_lambda.py lines 548-550: the value returned
\* when the roster is empty
NoRecipientsReturn == FALSE

\* daily_job.py lines 180-202, aws_lambda.py lines 545-565: the empty-roster
\* return, one turn of the loop, or the loop's end
Send ==
    /\ pc = "send"
    /\ IF Len(chat_ids) = 0
       THEN /\ retval' = NoRecipientsReturn
            /\ pc' = "finally"
            /\ UNCHANGED <<idx, success_count, log>>
       ELSE IF idx < Len(chat_ids)
       THEN \E outcome \in {"ok", "false", "raise"} :
            /\ log' = Append(log, Call("send",
                                        [to |-> chat_ids[idx + 1], outcome |-> outcome],
                                        outcome = "ok"))
            /\ success_count' = IF outcome = "ok" THEN success_count + 1
                                ELSE success_count
            /\ idx' = AfterSend(idx, outcome, Len(chat_ids))
            /\ UNCHANGED <<pc, retval>>
       ELSE /\ IF impl = "modular"
               THEN pc' = "finally" /\ retval' = SendResult(success_count)
               ELSE pc' = "save" /\ UNCHANGED retval
            /\ UNCHANGED <<idx, success_count, log>>
    /\ UNCHANGED <<inbound, entry, impl, env, now, history, roster, digests, client,
                   is_connected, pos, filtered_messages, dumped, news_items,
                   summary, message, chat_ids, exc, result>>

\* Mutant: close() disconnects whenever a client object exists.
CloseDisconnectsAnyClient(c, connected) == c

\* TelegramDumper.close, line 61: whether it disconnects
CloseDisconnects(c, connected) == c /\ connected

\* Mutant: there is no outer except clause; an exception leaves the function.
RunReturnPropagates(raised, value) == IF raised THEN NoneVal ELSE Some(value)

\* lines 255-258: what run_daily_job_async returns when an exception reached
\* its outer except clause, and when the try body returned `value`
RunReturn(raised, value) == IF raised THEN Some(FALSE) ELSE Some(value)

\* lines 252-258: finally: await dumper.close(); then the return value of the
\* try body, or False from the outer except when an exception is propagating
\* (from the body, or from disconnect).
Finally ==
    /\ pc = "finally"
    /\ IF CloseDisconnects(client, is_connected)
       THEN \E ok \in BOOLEAN :
            /\ log' = Append(log, Call("disconnect", 0, ok))
            /\ is_connected' = IF ok THEN FALSE ELSE is_connected
            /\ result' = RunReturn(exc \/ ~ok, retval)
       ELSE /\ result' = RunReturn(exc, retval)
            /\ UNCHANGED <<log, is_connected>>
    /\ pc' = "done"
    /\ UNCHANGED <<inbound, entry, impl, env, now, history, roster, digests, client,
                   pos, filtered_messages, dumped, news_items, summary, message,
                   chat_ids, idx, success_count, exc, retval>>

(***************************************************************************)
(* Command parser (src/src/bot/parser.py, aws_lambda.py lines 669-687).    *)
(* An inbound text is a sequence of one-character lexemes.                 *)
(***************************************************************************)
\* a str as the sequence of its characters
Str(s) == [i \in 1..Len(s) |-> Ch(SubSeq(s, i, i))]

Uppers == "ABCDEFGHIJKLMNOPQRSTUVWXYZ"

Lowers == "abcdefghijklmnopqrstuvwxyz"

\* str.lower() on one character
LowerChar(c) ==
    IF \E i \in 1..Len(Uppers) : c = Ch(SubSeq(Uppers, i, i))
    THEN LET i == CHOOSE j \in 1..Len(Uppers) : c = Ch(SubSeq(Uppers, j, j))
         IN  Ch(SubSeq(Lowers, i, i))
    ELSE c

\* str.lower()
Lower(t) == [i \in 1..Len(t) |-> LowerChar(t[i])]

\* the length of the longest prefix of t without whitespace
WordLen(t) ==
    IF \E i \in 1..Len(t) : IsSpace(t[i])
    THEN (CHOOSE i \in 1..Len(t) :
              IsSpace(t[i]) /\ \A j \in 1..(i - 1) : ~IsSpace(t[j])) - 1
    ELSE Len(t)

RECURSIVE Split(_)
\* str.split(): the maximal runs of characters that are not whitespace
Split(t) ==
    LET s == LStrip(t)
    IN  IF s = <<>> THEN <<>>
        ELSE <<SubSeq(s, 1, WordLen(s))>> \o Split(SubSeq(s, WordLen(s) + 1, Len(s)))

NotCommand == [command |-> NoneVal, args |-> <<>>]

\* Mutant: leading whitespace is skipped before the prefix test.
parse_command_lstrip(message_text) ==
    IF ~Truthy(LStrip(message_text)) \/ Head(LStrip(message_text)) # Ch("/")
    THEN NotCommand
    ELSE LET parts == Split(message_text)
         IN  [command |-> Some(Lower(Tail(parts[1]))), args |-> Tail(parts)]

\* Mutant: the command name keeps its case.
parse_command_keep_case(message_text) ==
    IF ~Truthy(message_text) \/ Head(message_text) # Ch("/")
    THEN NotCommand
    ELSE LET parts == Split(message_text)
         IN  [command |-> Some(Tail(parts[1])), args |-> Tail(parts)]

\* parse_command(message_text): (command, args)
parse_command(message_text) ==
    IF ~Truthy(message_text) \/ Head(message_text) # Ch("/")
    THEN NotCommand
    ELSE LET parts == Split(message_text)
         IN  [command |-> Some(Lower(Tail(parts[1]))), args |-> Tail(parts)]

\* parse_command called on its own
ParseCommand ==
    /\ pc = "parse"
    /\ result' = Some(parse_command(inbound.text))
    /\ pc' = "done"
    /\ UNCHANGED <<inbound, entry, impl, env, now, history, roster, digests, client,
                   is_connected, pos, filtered_messages, dumped, news_items,
                   summary, message, chat_ids, idx, success_count, exc, retval,
                   log>>

(***************************************************************************)
(* Bot replies (src/src/bot/messages.py; literals in aws_lambda.py).       *)
(***************************************************************************)
get_welcome_message == <<Ch("<b>Welcome to MarketTwits Summarizer Bot!</b>")>>

get_help_message == <<Ch("<b>Available Commands:</b>")>>

get_subscribe_success_message == <<Ch("<b>Successfully subscribed!</b>")>>

get_subscribe_already_message ==
    <<Ch("You are already subscribed to daily market summaries.")>>

get_unsubscribe_success_message == <<Ch("<b>Successfully unsubscribed!</b>")>>

get_unsubscribe_not_subscribed_message == <<Ch("You are not currently subscribed.")>>

get_no_summary_message == <<Ch("<b>No summary available</b>")>>

\* Mutant: the reply does not name the command.
get_unknown_command_message_plain(command) ==
    <<Ch("Unknown command"), NL, NL, Ch("Use /help to see all available commands.")>>

get_unknown_command_message(command) ==
    <<Ch("Unknown command: <code>")>> \o command
        \o <<Ch("</code>"), NL, NL, Ch("Use /help to see all available commands.")>>

get_error_message == <<Ch("Error processing command. Please try again.")>>

get_subscribe_error_message == <<Ch("Error subscribing. Please try again later.")>>

get_unsubscribe_error_message == <<Ch("Error unsubscribing. Please try again later.")>>

get_latest_error_message ==
    <<Ch("Error retrieving latest summary. Please try again later.")>>

(***************************************************************************)
(* The store (src/src/database/repository.py, src/database.py).  `ok` says *)
(* whether the connection and the statement worked.                        *)
(***************************************************************************)
Range(r) == { r[i] : i \in 1..Len(r) }

\* Mutant: the table has no unique constraint.
add_chat_id_duplicates(r, id, ok) ==
    IF ok
    THEN [roster |-> Append(r, id), value |-> TRUE]
    ELSE [roster |-> r, value |-> FALSE]

\* add_chat_id: INSERT, False on IntegrityError (chat_id is unique) or fault
add_chat_id(r, id, ok) ==
    IF ok /\ id \notin Range(r)
    THEN [roster |-> Append(r, id), value |-> TRUE]
    ELSE [roster |-> r, value |-> FALSE]

\* Mutant: the DELETE has no WHERE clause.
remove_chat_id_all(r, id, ok) ==
    IF ok /\ id \in Range(r)
    THEN [roster |-> <<>>, value |-> TRUE]
    ELSE [roster |-> r, value |-> FALSE]

\* remove_chat_id: DELETE ... WHERE chat_id = id, True iff rowcount > 0
remove_chat_id(r, id, ok) ==
    IF ok /\ id \in Range(r)
    THEN [roster |-> SelectSeq(r, LAMBDA x : x # id), value |-> TRUE]
    ELSE [roster |-> r, value |-> FALSE]

\* Mutant: the query orders the rows oldest first.
get_latest_summary_oldest(d, ok) ==
    IF ~ok \/ d = <<>> THEN {NoneVal}
    ELSE { Some(d[i].message) : i \in { j \in 1..Len(d) :
                \A k \in 1..Len(d) : Le(d[j].timestamp, d[k].timestamp) } }

\* get_latest_summary: SELECT message ... ORDER BY timestamp DESC LIMIT 1; the
\* values it may return (rows of equal timestamp come in either order), None
\* when there is no row or on a fault
get_latest_summary(d, ok) ==
    IF ~ok \/ d = <<>> THEN {NoneVal}
    ELSE { Some(d[i].message) : i \in { j \in 1..Len(d) :
                \A k \in 1..Len(d) : Le(d[k].timestamp, d[j].timestamp) } }

(***************************************************************************)
(* Command router and handlers (src/src/bot/router.py, commands.py;        *)
(* aws_lambda.py lines 690-811).                                           *)
(***************************************************************************)
\* command_handlers
command_handlers ==
    { Str("start"), Str("subscribe"), Str("unsubscribe"), Str("get_latest"),
      Str("help") }

\* the handlers that have a try/except of their own around store call and send
GuardedHandlers == { Str("subscribe"), Str("unsubscribe"), Str("get_latest") }

\* What the function that sends a reply may do.  aws_lambda.py calls its
\* send_message, which returns False on every Exception; router.py calls the
\* send_message_func it is given.
SendOutcomes(i) ==
    IF i = "lambda" THEN {"ok", "false"} ELSE {"ok", "false", "raise"}

\* the command of the inbound text
Command == parse_command(inbound.text).command

\* Mutant: a text that is no command is reported as a failure.
NonCommandReturnFalse == FALSE

\* router.py line 46: the value returned for a text that is no command
NonCommandReturn == TRUE

\* process_command, lines 41-55: parse; a text that is no command is
\* acknowledged with True.  The log notes the request with the roster and the
\* digest history it meets.
Route ==
    /\ pc = "route"
    /\ log' = Append(log, Call("update",
                  [chat_id |-> inbound.chat_id, text |-> inbound.text,
                   roster |-> roster, digests |-> digests], TRUE))
    /\ IF Command = NoneVal \/ ~Truthy(Command.some)
       THEN /\ result' = Some(NonCommandReturn)
            /\ pc' = "done"
       ELSE /\ pc' = "handle"
            /\ UNCHANGED result
    /\ UNCHANGED <<inbound, entry, impl, env, now, history, roster, digests, client,
                   is_connected, pos, filtered_messages, dumped, news_items,
                   summary, message, chat_ids, idx, success_count, exc, retval>>

\* The handler up to its send: the store call, if it has one, and the reply
\* it chooses.
Handle ==
    /\ pc = "handle"
    /\ LET cmd == Command.some
           id == inbound.chat_id
       IN  IF cmd = Str("subscribe")
           THEN \E ok \in DbOutcomes(env) :
                LET r == add_chat_id(roster, id, ok)
                IN  /\ roster' = r.roster
                    /\ log' = Append(log, Call("add_chat_id",
                                  [id |-> id, value |-> r.value, after |-> r.roster], ok))
                    /\ message' = IF r.value THEN get_subscribe_success_message
                                   ELSE get_subscribe_already_message
           ELSE IF cmd = Str("unsubscribe")
           THEN \E ok \in DbOutcomes(env) :
                LET r == remove_chat_id(roster, id, ok)
                IN  /\ roster' = r.roster
                    /\ log' = Append(log, Call("remove_chat_id",
                                  [id |-> id, value |-> r.value, after |-> r.roster], ok))
                    /\ message' = IF r.value THEN get_unsubscribe_success_message
                                   ELSE get_unsubscribe_not_subscribed_message
           ELSE IF cmd = Str("get_latest")
           THEN \E ok \in DbOutcomes(env) :
                \E v \in get_latest_summary(digests, ok) :
                    /\ log' = Append(log, Call("get_latest_summary",
                                  [id |-> id, value |-> v, after |-> roster], ok))
                    /\ message' = IF v # NoneVal /\ Truthy(v.some) THEN v.some
                                   ELSE get_no_summary_message
                    /\ UNCHANGED roster
           ELSE /\ message' = IF cmd = Str("start") THEN get_welcome_message
                               ELSE IF cmd = Str("help") THEN get_help_message
                               ELSE get_unknown_command_message(cmd)
                /\ UNCHANGED <<roster, log>>
    /\ pc' = "reply"
    /\ UNCHANGED <<inbound, entry, impl, env, now, history, digests, client,
                   is_connected, pos, filtered_messages, dumped, news_items,
                   summary, chat_ids, idx, success_count, exc, retval, result>>

\* the reply of a guarded handler's except clause
HandlerErrorMessage(cmd) ==
    IF cmd = Str("subscribe") THEN get_subscribe_error_message
    ELSE IF cmd = Str("unsubscribe") THEN get_unsubscribe_error_message
    ELSE get_latest_error_message

\* A send of the reply: the handler's (pc "reply"), the one of the handler's
\* except clause ("reply_error"), or the one of the router's except clause
\* ("reply_generic").  Its flag is returned; its exception goes to the
\* enclosing except clause, or out of process_command when there is none.
SendReply ==
    /\ pc \in {"reply", "reply_error", "reply_generic"}
    /\ \E outcome \in SendOutcomes(impl) :
        /\ log' = Append(log, Call("send",
                      [to |-> inbound.chat_id, outcome |-> outcome, text |-> message],
                      outcome = "ok"))
        /\ IF outcome # "raise"
           THEN /\ result' = Some(outcome = "ok")
                /\ pc' = "done"
                /\ UNCHANGED <<message, exc>>
           ELSE IF pc = "reply" /\ Command.some \in GuardedHandlers
           THEN /\ message' = HandlerErrorMessage(Command.some)
                /\ pc' = "reply_error"
                /\ UNCHANGED <<result, exc>>
           ELSE IF pc # "reply_generic" /\ Command.some \in command_handlers
           THEN /\ message' = get_error_message
                /\ pc' = "reply_generic"
                /\ UNCHANGED <<result, exc>>
           ELSE /\ exc' = TRUE
                /\ pc' = "done"
                /\ UNCHANGED <<message, result>>
    /\ UNCHANGED <<inbound, entry, impl, env, now, history, roster, digests, client,
                   is_connected, pos, filtered_messages, dumped, news_items,
                   summary, chat_ids, idx, success_count, retval>>

(***************************************************************************)
(* Inputs.                                                                 *)
(***************************************************************************)
\* Reference instants of a run: the first, a middle and the last instant of day 2.
Nows ==
    { Instant(2 * SecondsPerDay, 0),
      Instant(2 * SecondsPerDay + 43200, 5),
      Instant(3 * SecondsPerDay - 1, MaxMicrosecond) }

\* Message dates around day 1: its eve's last instant, its first, a middle and
\* its last instant, the first instant of day 2, and no date.
Dates ==
    { Instant(SecondsPerDay - 1, MaxMicrosecond),
      Instant(SecondsPerDay, 0),
      Instant(SecondsPerDay + 43200, 0),
      Instant(2 * SecondsPerDay - 1, MaxMicrosecond),
      Instant(2 * SecondsPerDay, 0),
      NoneVal }

Texts == { <<>>, <<Ch("x")>> }

Blocks ==
    { Block(1, d, t) : d \in Dates, t \in Texts }
        \cup { Block(ScanLimit, Instant(SecondsPerDay + 43200, 0), t) : t \in Texts }

SeqsUpTo(S, n) == UNION { [1..k -> S] : k \in 0..n }

Histories == SeqsUpTo(Blocks, MaxBlocks)

\* The dumper a call of dump_news_for_date meets: new, or connected by an
\* earlier call of connect.
Dumpers == { [client |-> FALSE, is_connected |-> FALSE],
             [client |-> TRUE, is_connected |-> TRUE] }

InitDump ==
    /\ inbound = NoneVal
    /\ entry = "dump_news_for_date"
    /\ impl = "modular"
    /\ env = {}
    /\ now \in Nows
    /\ history \in Histories
    /\ roster = <<>>
    /\ digests = <<>>
    /\ pc = "dump"
    /\ \E d \in Dumpers : client = d.client /\ is_connected = d.is_connected
    /\ pos = 0
    /\ filtered_messages = <<>>
    /\ dumped = NoneVal
    /\ news_items = NoneVal
    /\ summary = NoneVal
    /\ message = NoneVal
    /\ chat_ids = <<>>
    /\ idx = 0
    /\ success_count = 0
    /\ exc = FALSE
    /\ retval = NoneVal
    /\ result = NoneVal
    /\ log = <<>>

NextDump == DumpStart \/ GetEntity \/ Scan

SpecDump == InitDump /\ [][NextDump]_vars

Envs ==
    { RequiredVars \cup DbVars }
        \cup { (RequiredVars \cup DbVars) \ {v} : v \in RequiredVars \cup DbVars }

\* The rosters: the sequences of distinct ids among 1..MaxRoster.
Rosters ==
    { r \in SeqsUpTo(1..MaxRoster, MaxRoster) :
        \A i, j \in 1..Len(r) : i # j => r[i] # r[j] }

RunHistories ==
    { <<>>,
      <<Block(1, Instant(SecondsPerDay + 43200, 0), <<Ch("x")>>)>>,
      <<Block(1, Instant(2 * SecondsPerDay - 1, MaxMicrosecond), <<Ch(" ")>>)>>,
      <<Block(2, Instant(SecondsPerDay + 43200, 0), <<Ch("x")>>),
        Block(1, Instant(SecondsPerDay, 0), <<>>),
        Block(1, Instant(SecondsPerDay - 1, MaxMicrosecond), <<Ch("x")>>)>> }

Init ==
    /\ inbound = NoneVal
    /\ entry = "run_daily_job_async"
    /\ impl \in {"modular", "lambda"}
    /\ env \in Envs
    /\ now = Instant(2 * SecondsPerDay + 43200, 5)
    /\ history \in RunHistories
    /\ roster \in Rosters
    /\ digests = <<>>
    /\ pc = "validate"
    /\ client = FALSE
    /\ is_connected = FALSE
    /\ pos = 0
    /\ filtered_messages = <<>>
    /\ dumped = NoneVal
    /\ news_items = NoneVal
    /\ summary = NoneVal
    /\ message = NoneVal
    /\ chat_ids = <<>>
    /\ idx = 0
    /\ success_count = 0
    /\ exc = FALSE
    /\ retval = NoneVal
    /\ result = NoneVal
    /\ log = <<>>

Next ==
    \/ Validate
    \/ DumpStart
    \/ GetEntity
    \/ Scan
    \/ CreateSummary
    \/ GetChatIds
    \/ Save
    \/ Send
    \/ Finally

Spec == Init /\ [][Next]_vars

\* run_daily_job_async, or dump_news_for_date called on its own
InitRunOrDump == Init \/ InitDump

SpecRunOrDump == InitRunOrDump /\ [][Next]_vars

\* Inputs of summarize_news called on its own.
ItemTexts ==
    { <<>>, <<Ch(" ")>>, <<Ch("x")>>,
      <<Rep("x", MaxLength \div 2 - 1)>>, <<Rep("y", MaxLength \div 2)>>,
      <<Rep("z", MaxLength + 1)>> }

ItemLists ==
    SeqsUpTo({ Block(1, Instant(SecondsPerDay + 43200, 0), t) : t \in ItemTexts },
             MaxBlocks)

InitSummarize ==
    /\ inbound = NoneVal
    /\ entry = "summarize_news"
    /\ impl = "modular"
    /\ env = {}
    /\ now \in Nows
    /\ history = <<>>
    /\ roster = <<>>
    /\ digests = <<>>
    /\ pc = "summarize"
    /\ client = FALSE
    /\ is_connected = FALSE
    /\ pos = 0
    /\ filtered_messages = <<>>
    /\ dumped = NoneVal
    /\ news_items \in ItemLists
    /\ summary = NoneVal
    /\ message = NoneVal
    /\ chat_ids = <<>>
    /\ idx = 0
    /\ success_count = 0
    /\ exc = FALSE
    /\ retval = NoneVal
    /\ result = NoneVal
    /\ log = <<>>

NextSummarize == CreateSummary

SpecSummarize == InitSummarize /\ [][NextSummarize]_vars

\* What every specification starts from apart from its inputs.
Fresh ==
    /\ client = FALSE
    /\ is_connected = FALSE
    /\ pos = 0
    /\ filtered_messages = <<>>
    /\ dumped = NoneVal
    /\ chat_ids = <<>>
    /\ idx = 0
    /\ success_count = 0
    /\ exc = FALSE
    /\ retval = NoneVal
    /\ result = NoneVal
    /\ log = <<>>

\* Inputs of _format_summary_message called on its own.
MaxTopics == 3

Topics == { <<Ch("A")>>, <<Ch("B")>>, <<Ch("rates"), Ch(" "), Ch("up")>> }

Bodies == { <<Ch("S")>>, <<Ch("Stocks rose."), NL, Ch("Bonds fell.")>> }

Summaries ==
    { Summary(d, b, c, t) :
        d \in {1}, b \in Bodies, c \in {1, ScanLimit}, t \in SeqsUpTo(Topics, MaxTopics) }

InitFormat ==
    /\ inbound = NoneVal
    /\ entry = "format_summary_message"
    /\ impl \in {"modular", "lambda"}
    /\ env = {}
    /\ now = Instant(2 * SecondsPerDay, 0)
    /\ history = <<>>
    /\ roster = <<>>
    /\ digests = <<>>
    /\ pc = "format"
    /\ news_items = NoneVal
    /\ summary \in Summaries
    /\ message = NoneVal
    /\ Fresh

NextFormat == FormatMessage

SpecFormat == InitFormat /\ [][NextFormat]_vars

\* Inputs of parse_command called on its own.
MaxText == 6

Alphabet == { Ch("/"), Ch(" "), Ch("a"), Ch("B") }

RawTexts ==
    SeqsUpTo(Alphabet, MaxText)
        \cup { Str("/Ba\nB"), Str("\n/a"), Str("/START"), Str("/get_latest x Y") }

InitParse ==
    /\ inbound \in { [chat_id |-> 1, text |-> t] : t \in RawTexts }
    /\ entry = "parse_command"
    /\ impl \in {"modular", "lambda"}
    /\ env = {}
    /\ now = Instant(2 * SecondsPerDay, 0)
    /\ history = <<>>
    /\ roster = <<>>
    /\ digests = <<>>
    /\ pc = "parse"
    /\ news_items = NoneVal
    /\ summary = NoneVal
    /\ message = NoneVal
    /\ Fresh

NextParse == ParseCommand

SpecParse == InitParse /\ [][NextParse]_vars

\* Inputs of process_command.
BotTexts ==
    { Str("hello"), Str("/"), Str("/ start"), Str("/start"), Str("/SUBSCRIBE now"),
      Str("/unsubscribe"), Str("/get_latest"), Str("/help"), Str("/foo") }

Inbounds == { [chat_id |-> c, text |-> t] : c \in 1..MaxRoster, t \in BotTexts }

\* a digest record as a run saves it
Digest(t, m) == [timestamp |-> t, message |-> m]

BotDigests ==
    { <<>>,
      <<Digest(Instant(SecondsPerDay, 0), <<Ch("digest of day 0")>>),
        Digest(Instant(2 * SecondsPerDay, 0), <<Ch("digest of day 1")>>)>> }

InitBot ==
    /\ inbound \in Inbounds
    /\ entry = "process_command"
    /\ impl \in {"modular", "lambda"}
    /\ env = RequiredVars \cup DbVars
    /\ now = Instant(2 * SecondsPerDay + 43200, 5)
    /\ history = <<>>
    /\ roster \in Rosters
    /\ digests \in BotDigests
    /\ pc = "route"
    /\ news_items = NoneVal
    /\ summary = NoneVal
    /\ message = NoneVal
    /\ Fresh

\* where the calls of the request served last start in the log
LastUpdate ==
    CHOOSE i \in 1..Len(log) :
        log[i].op = "update" /\ \A j \in (i + 1)..Len(log) : log[j].op # "update"

StoreOps == {"add_chat_id", "remove_chat_id", "get_latest_summary"}

\* The next inbound message is handed to process_command (requests are served
\* one after the other).  The log keeps the store call of the request just
\* served and drops the rest.
Receive ==
    /\ pc = "done"
    /\ entry = "process_command"
    /\ inbound' \in Inbounds
    /\ pc' = "route"
    /\ message' = NoneVal
    /\ exc' = FALSE
    /\ result' = NoneVal
    /\ log' = SelectSeq(SubSeq(log, LastUpdate, Len(log)),
                         LAMBDA c : c.op \in StoreOps)
    /\ UNCHANGED <<entry, impl, env, now, history, roster, digests, client,
                   is_connected, pos, filtered_messages, dumped, news_items,
                   summary, chat_ids, idx, success_count, retval>>

NextBot == Route \/ Handle \/ SendReply \/ Receive

SpecBot == InitBot /\ [][NextBot]_vars

(***************************************************************************)
(* The deployed service: scheduled runs and inbound commands, served one   *)
(* after the other, on one store.                                          *)
(***************************************************************************)
\* the scheduled runs of a behaviour
MaxRuns == 2

\* what a call of run_daily_job_async or process_command starts from: its
\* locals are new, and so is the TelegramDumper of a run
NewCall ==
    /\ client' = FALSE
    /\ is_connected' = FALSE
    /\ pos' = 0
    /\ filtered_messages' = <<>>
    /\ dumped' = NoneVal
    /\ news_items' = NoneVal
    /\ summary' = NoneVal
    /\ message' = NoneVal
    /\ chat_ids' = <<>>
    /\ idx' = 0
    /\ success_count' = 0
    /\ exc' = FALSE
    /\ retval' = NoneVal
    /\ result' = NoneVal
    /\ log' = <<>>

\* The schedule fires a day after the previous run: lambda_handler (or
\* run_daily_job) calls run_daily_job_async.
Schedule ==
    /\ pc = "done"
    /\ DayOf(now) < 1 + MaxRuns
    /\ entry' = "run_daily_job_async"
    /\ now' = Instant(now.s + SecondsPerDay, now.us)
    /\ inbound' = NoneVal
    /\ pc' = "validate"
    /\ NewCall
    /\ UNCHANGED <<impl, env, history, roster, digests>>

\* The inbound messages of the service.
ServiceInbounds ==
    { [chat_id |-> 1, text |-> t] :
        t \in { Str("hello"), Str("/subscribe"), Str("/unsubscribe"),
                Str("/get_latest") } }

\* An inbound message is handed to process_command.
ServiceReceive ==
    /\ pc = "done"
    /\ entry' = "process_command"
    /\ inbound' \in ServiceInbounds
    /\ pc' = "route"
    /\ NewCall
    /\ UNCHANGED <<impl, env, now, history, roster, digests>>

\* The channel of the service: each day has one message at noon.
ServiceHistory ==
    [ i \in 1..MaxRuns |->
        Block(1, Instant((MaxRuns + 1 - i) * SecondsPerDay + 43200, 0), <<Ch("x")>>) ]

\* The rosters the service starts with (subscriptions change them).
ServiceRosters == { <<>>, <<2>> }

InitService ==
    /\ inbound = NoneVal
    /\ entry = "run_daily_job_async"
    /\ impl \in {"modular", "lambda"}
    /\ env = RequiredVars \cup DbVars
    /\ now = Instant(2 * SecondsPerDay + 43200, 5)
    /\ history = ServiceHistory
    /\ roster \in ServiceRosters
    /\ digests = <<>>
    /\ pc = "validate"
    /\ news_items = NoneVal
    /\ summary = NoneVal
    /\ message = NoneVal
    /\ Fresh

NextService == Next \/ Route \/ Handle \/ SendReply \/ Schedule \/ ServiceReceive

SpecService == InitService /\ [][NextService]_vars

(***************************************************************************)
(* The webhook entry point (aws_lambda.py lines 814-895).  An event is a   *)
(* record [body, requestContext]; a body is absent (NoneVal), a str        *)
(* ([str |-> text]) or an already decoded value ([obj |-> value]).         *)
(***************************************************************************)
JNull == [kind |-> "null"]

JNum(k) == [kind |-> "number", num |-> k]

JStr(chars) == [kind |-> "string", str |-> chars]

JList(items) == [kind |-> "array", items |-> items]

\* a value that was computed, and an exception raised instead of one
Returned(v) == [raised |-> FALSE, value |-> v]

Raised == [raised |-> TRUE]

\* key in v: membership for a dict (keys), a list (elements) and a str
\* (substring); TypeError for None and numbers
Has(v, key) ==
    IF v.kind = "object" THEN Returned(key \in DOMAIN v.fields)
    ELSE IF v.kind = "array"
    THEN Returned(\E i \in 1..Len(v.items) : v.items[i] = JStr(key))
    ELSE IF v.kind = "string"
    THEN Returned(\E i \in 1..Len(v.str) :
                    /\ i + Len(key) - 1 <= Len(v.str)
                    /\ SubSeq(v.str, i, i + Len(key) - 1) = key)
    ELSE Raised

\* v[key] for a str key: the value of a dict's key; KeyError or TypeError
\* otherwise
Item(v, key) ==
    IF v.kind = "object" /\ key \in DOMAIN v.fields
    THEN Returned(v.fields[key])
    ELSE Raised

\* truth value of a decoded JSON value
JTruthy(v) ==
    IF v.kind = "null" THEN FALSE
    ELSE IF v.kind = "number" THEN v.num # 0
    ELSE IF v.kind = "string" THEN v.str # ""
    ELSE IF v.kind = "array" THEN v.items # <<>>
    ELSE DOMAIN v.fields # {}

\* truth value of event.get("body")
BodyTruthy(b) ==
    IF b = NoneVal THEN FALSE
    ELSE IF "str" \in DOMAIN b THEN b.str # <<>>
    ELSE JTruthy(b.obj)

\* line 827: event.get("body") or event.get("requestContext", {}).get("body", "{}")
EventBody(event) ==
    IF BodyTruthy(event.body) THEN event.body
    ELSE IF event.requestContext = NoneVal \/ event.requestContext.body = NoneVal
    THEN [str |-> <<Doc(JObject([x \in {} |-> JNull]))>>]
    ELSE event.requestContext.body

\* lines 828-831: json.loads of a str body
Decode(body) ==
    IF "str" \in DOMAIN body
    THEN IF json_loads(body.str).ok THEN Returned(json_loads(body.str).value)
         ELSE Raised
    ELSE Returned(body.obj)

\* the response dictionary: its statusCode and the "ok" of its body
Response(status, ok) == [statusCode |-> status, ok |-> ok]

\* lines 876-884: the response to a body that is no JSON
OnInvalidJson == Response(400, FALSE)

\* lines 885-895: the response to any other exception
OnException == Response(500, FALSE)

\* lines 836-839, 846-849, 856-859: the acknowledgement of an update that
\* carries nothing to process
Ignored == Response(200, TRUE)

\* lines 827-863 up to the call of process_command: [response] when the
\* function returns before it, [call] with the arguments otherwise
webhook_update(event) ==
    LET update == Decode(EventBody(event))
    IN  IF update.raised THEN [response |-> OnInvalidJson]
        ELSE LET u == update.value
             IN  IF Has(u, "message").raised THEN [response |-> OnException]
                 ELSE IF ~Has(u, "message").value THEN [response |-> Ignored]
                 ELSE IF Item(u, "message").raised THEN [response |-> OnException]
                 ELSE LET m == Item(u, "message").value
                      IN  IF Has(m, "chat").raised THEN [response |-> OnException]
                          ELSE IF ~Has(m, "chat").value THEN [response |-> Ignored]
                          ELSE IF Item(m, "chat").raised THEN [response |-> OnException]
                          ELSE LET c == Item(m, "chat").value
                               IN  IF Has(c, "id").raised THEN [response |-> OnException]
                                   ELSE IF ~Has(c, "id").value THEN [response |-> Ignored]
                                   ELSE IF Item(c, "id").raised
                                   THEN [response |-> OnException]
                                   ELSE LET t == DictGet(m, "text", JStr(""))
                                        IN  IF ~JTruthy(t) THEN [response |-> Ignored]
                                            ELSE [call |-> [chat_id |-> Item(c, "id").value,
                                                            text |-> t]]

\* handle_webhook_update up to process_command.  A text that is no str makes
\* parse_command raise (line 679), which is answered as any other exception.
HandleWebhookUpdate ==
    /\ pc = "webhook"
    /\ log' = Append(log, Call("webhook", inbound, TRUE))
    /\ LET w == webhook_update(inbound)
       IN  IF "response" \in DOMAIN w
           THEN /\ result' = Some(w.response)
                /\ pc' = "returned"
                /\ UNCHANGED inbound
           ELSE IF w.call.text.kind # "string"
           THEN /\ result' = Some(OnException)
                /\ pc' = "returned"
                /\ UNCHANGED inbound
           ELSE /\ inbound' = [chat_id |-> w.call.chat_id.num,
                               text |-> Str(w.call.text.str)]
                /\ pc' = "route"
                /\ UNCHANGED result
    /\ UNCHANGED <<entry, impl, env, now, history, roster, digests, client,
                   is_connected, pos, filtered_messages, dumped, news_items,
                   summary, message, chat_ids, idx, success_count, exc, retval>>

\* lines 863-874 and 885-895: the response after process_command
WebhookReturn ==
    /\ pc = "done"
    /\ entry = "handle_webhook_update"
    /\ result' = IF exc THEN Some(OnException)
                 ELSE Some(Response(200, result.some))
    /\ pc' = "returned"
    /\ UNCHANGED <<inbound, entry, impl, env, now, history, roster, digests, client,
                   is_connected, pos, filtered_messages, dumped, news_items,
                   summary, message, chat_ids, idx, success_count, exc, retval,
                   log>>

\* Inputs of handle_webhook_update.
Chat == JObject([id |-> JNum(1)])

WebhookTexts == { "hello", "/start", "/subscribe", "/unsubscribe", "/get_latest" }

WebhookMessages ==
    { JNull, JNum(7), JStr("hi"), JStr("chat"), JList(<<JStr("chat")>>),
      JObject([text |-> JStr("/subscribe")]),
      JObject([chat |-> JNull, text |-> JStr("/subscribe")]),
      JObject([chat |-> JStr("id"), text |-> JStr("/subscribe")]),
      JObject([chat |-> JObject([type |-> JStr("private")]),
               text |-> JStr("/subscribe")]),
      JObject([chat |-> Chat]),
      JObject([chat |-> Chat, text |-> JStr("")]),
      JObject([chat |-> Chat, text |-> JNull]),
      JObject([chat |-> Chat, text |-> JNum(7)]) }
        \cup { JObject([chat |-> Chat, text |-> JStr(t)]) : t \in WebhookTexts }

Updates ==
    { JNull, JNum(7), JStr("hi"), JStr("a message"), JList(<<>>),
      JList(<<JStr("message")>>), JObject([update_id |-> JNum(7)]) }
        \cup { JObject([update_id |-> JNum(7), message |-> m]) : m \in WebhookMessages }

WebhookBodies ==
    { NoneVal, [str |-> <<>>], [str |-> <<Ch("{not json")>>],
      [obj |-> JObject([update_id |-> JNum(7),
                        message |-> JObject([chat |-> Chat,
                                             text |-> JStr("/subscribe")])])] }
        \cup { [str |-> <<Doc(u)>>] : u \in Updates }

Events ==
    { [body |-> b, requestContext |-> c] :
        b \in WebhookBodies,
        c \in { NoneVal, [body |-> NoneVal],
                [body |-> [str |-> <<Doc(JObject([update_id |-> JNum(7)]))>>]] } }

InitWebhook ==
    /\ inbound \in Events
    /\ entry = "handle_webhook_update"
    /\ impl = "lambda"
    /\ env = RequiredVars \cup DbVars
    /\ now = Instant(2 * SecondsPerDay + 43200, 5)
    /\ history = <<>>
    /\ roster \in Rosters
    /\ digests \in BotDigests
    /\ pc = "webhook"
    /\ news_items = NoneVal
    /\ summary = NoneVal
    /\ message = NoneVal
    /\ Fresh

NextWebhook ==
    HandleWebhookUpdate \/ Route \/ Handle \/ SendReply \/ WebhookReturn

SpecWebhook == InitWebhook /\ [][NextWebhook]_vars

(***************************************************************************)
(* Properties.                                                             *)
(***************************************************************************)
Done == pc = "done"

Sends == Calls("send")

ConnectsOk == SelectSeq(log, LAMBDA c : c.op = "connect" /\ c.ok)

SomeSendOk == \E i \in 1..Len(Sends) : Sends[i].ok

SaveRaised == \E i \in 1..Len(log) : log[i].op = "save" /\ ~log[i].ok

\* the summarize_news call of the behaviour, if made
Summarized == Calls("summarize")

ProviderCalled == \E i \in 1..Len(Summarized) : Summarized[i].arg.called

\* The roster was fetched and delivery has run to its end.
Delivered == Done /\ Len(chat_ids) >= 1

AttemptsTo(id) == { i \in 1..Len(Sends) : Sends[i].arg.to = id }

\* C1: fan-out isolation.  Once _send_and_save_summary has run on a roster of
\* N >= 1 ids, delivery was attempted exactly once to each id of the roster and
\* to no other id, whatever the outcomes (success, False, exception) were.
C1_FanOutIsolation ==
    Delivered =>
        /\ \A k \in 1..Len(chat_ids) : Cardinality(AttemptsTo(chat_ids[k])) = 1
        /\ Len(Sends) = Len(chat_ids)

\* A run on several subscribers whose first delivery raised.
C1_Witness ==
    /\ Delivered
    /\ Len(chat_ids) >= 2
    /\ Sends[1].arg.outcome = "raise"
    /\ Len(Sends) = Len(chat_ids)

\* C2: run_daily_job_async returns True iff at least one delivery attempted in
\* the run returned success, whatever the other collaborators did.
C2_SuccessIffDelivered ==
    (Done /\ entry = "run_daily_job_async") => (result = Some(TRUE) <=> SomeSendOk)

DisconnectRaised == \E i \in 1..Len(log) : log[i].op = "disconnect" /\ ~log[i].ok

\* What the code keeps of C2: the run returns True iff a delivery succeeded and
\* the disconnect of the finally clause did not raise.
SuccessIffDeliveredAndClosed ==
    (Done /\ entry = "run_daily_job_async") =>
        (result = Some(TRUE) <=> (SomeSendOk /\ ~DisconnectRaised))

\* C3: when the Retriever yields no messages, the run returns False and makes
\* no provider call, no save, no roster fetch and no delivery attempt.
C3_NoNewsSoftFailure ==
    (Done /\ entry = "run_daily_job_async" /\ dumped = Some(<<>>)) =>
        /\ result = Some(FALSE)
        /\ Summarized = <<>>
        /\ Calls("save") = <<>>
        /\ Calls("get_chat_ids") = <<>>
        /\ Sends = <<>>
        /\ digests = <<>>

\* A run whose scan consumed messages and still retrieved none.
C3_Witness ==
    /\ Done
    /\ entry = "run_daily_job_async"
    /\ dumped = Some(<<>>)
    /\ \E i \in 1..Len(log) : log[i].op = "iter" /\ log[i].ok

\* The provider faulted: the library is missing, or the completion call raised.
ProviderFaulted ==
    \E i \in 1..Len(Summarized) :
        \/ Summarized[i].arg.lib # "ok"
        \/ Summarized[i].arg.called /\ Summarized[i].arg.api = ApiError

\* C4: when the provider faults, summarize_news returns no digest and the run
\* returns False with no digest record persisted and no delivery attempted.
C4_ProviderFault ==
    ProviderFaulted =>
        /\ summary = NoneVal
        /\ Sends = <<>>
        /\ Calls("save") = <<>>
        /\ digests = <<>>
        /\ (Done /\ entry = "run_daily_job_async") => result = Some(FALSE)

\* A finished run whose completion call raised.
C4_Witness ==
    /\ Done
    /\ entry = "run_daily_job_async"
    /\ \E i \in 1..Len(Summarized) :
          Summarized[i].arg.called /\ Summarized[i].arg.api = ApiError

\* C5: when any required credential or configuration value is missing (those
\* of Config.validate and those of the store's connection), the run returns
\* False before any I/O: no collaborator is called.
C5_ConfigMissingNoIO ==
    (entry = "run_daily_job_async" /\ ~(RequiredVars \cup DbVars \subseteq env)) =>
        /\ log = <<>>
        /\ Done => result = Some(FALSE)

\* The part of C5 the code keeps: a value missing among those Config.validate
\* requires ends the run with False before any collaborator is called.
ValidatedConfigMissingNoIO ==
    (entry = "run_daily_job_async" /\ ~(RequiredVars \subseteq env)) =>
        /\ log = <<>>
        /\ Done => result = Some(FALSE)

SendTargets == [i \in 1..Len(Sends) |-> Sends[i].arg.to]

\* C6: a fault of the digest save never aborts delivery: in a run whose save
\* raised, delivery is attempted to every roster id, and the run's return value
\* is determined by the delivery outcomes alone.
C6_SaveFaultIsolated ==
    (Done /\ entry = "run_daily_job_async" /\ SaveRaised) =>
        /\ SendTargets = chat_ids
        /\ result = Some(SomeSendOk)

\* The part of C6 that does not depend on the disconnect: with a save that
\* raised, every roster id is attempted and _send_and_save_summary's value is
\* that of the deliveries.
SaveFaultKeepsDelivery ==
    (Done /\ entry = "run_daily_job_async" /\ SaveRaised) =>
        /\ SendTargets = chat_ids
        /\ retval = SomeSendOk

\* C7: connection cleanup.  disconnect is never invoked more often than a
\* connection was established, and when the run returns (by any path) every
\* connection established in it has been disconnected exactly once.
C7_CleanupGuaranteed ==
    /\ Len(Calls("disconnect")) <= Len(ConnectsOk)
    /\ (Done /\ entry = "run_daily_job_async") =>
           Len(Calls("disconnect")) = Len(ConnectsOk)

\* A run that ended by an exception of the try body, after connecting.
C7_Witness ==
    /\ Done
    /\ entry = "run_daily_job_async"
    /\ exc
    /\ Len(ConnectsOk) = 1
    /\ Len(Calls("disconnect")) = 1

\* The digest window of a run at `now`: the UTC day before, first to last
\* microsecond.
WindowDay == (now.s \div 86400) - 1

WindowStart == [s |-> WindowDay * 86400, us |-> 0]

WindowEnd == [s |-> WindowDay * 86400 + 86399, us |-> 999999]

\* WindowStart <= t <= WindowEnd
InWindow(t) ==
    /\ t # NoneVal
    /\ (WindowStart.s < t.s \/ (WindowStart.s = t.s /\ WindowStart.us <= t.us))
    /\ (t.s < WindowEnd.s \/ (t.s = WindowEnd.s /\ t.us <= WindowEnd.us))

\* C8: every message dump_news_for_date returns (and every message it has
\* accepted so far) has its timestamp in the window [D 00:00:00.000000,
\* D 23:59:59.999999], both ends included, D being the UTC day before the
\* reference instant.
C8_ResultsInWindow ==
    /\ \A i \in 1..Len(filtered_messages) : InWindow(filtered_messages[i].date)
    /\ (Done /\ entry = "dump_news_for_date") =>
           \A i \in 1..Len(result.some) : InWindow(result.some[i].date)

\* A result holding a message of the window's first instant and one of its last.
C8_Witness ==
    /\ Done
    /\ entry = "dump_news_for_date"
    /\ \E i, j \in 1..Len(result.some) :
          /\ result.some[i].date = WindowStart
          /\ result.some[j].date = WindowEnd

\* No collaborator call of the behaviour failed.
NoFault == \A i \in 1..Len(log) : log[i].ok

\* The history is in descending timestamp order (every message dated).
Descending(h) ==
    /\ \A i \in 1..Len(h) : h[i].date # NoneVal
    /\ \A i \in 1..(Len(h) - 1) : Le(h[i + 1].date, h[i].date)

\* The channel's messages of the window that have text.
Expected == SelectSeq(history, LAMBDA b : InWindow(b.date) /\ b.text # <<>>)

ReturnsExpected ==
    /\ Len(result.some) = Len(Expected)
    /\ \A i \in 1..Len(Expected) : result.some[i] = NewsItem(Expected[i])
    /\ \A i \in 1..Len(result.some) : result.some[i].text # <<>>

\* C9: completeness.  For a history delivered in descending order without
\* fault, dump_news_for_date returns every message of the window that has
\* text, however many messages the day holds, and none with empty text.
C9_RetrieverComplete ==
    (Done /\ entry = "dump_news_for_date" /\ NoFault /\ Descending(history)) =>
        ReturnsExpected

\* What the code keeps of C9: completeness when the channel holds at most
\* ScanLimit messages that are not newer than the window's end.
CompleteWithinLimit ==
    (Done /\ entry = "dump_news_for_date" /\ NoFault /\ Descending(history)
          /\ Count(SelectSeq(history, LAMBDA b : Le(b.date, WindowEnd))) <= ScanLimit) =>
        ReturnsExpected

IsReply(api) == "content" \in DOMAIN api

\* The summarize_news call met a reply that is not a JSON document.
NonJsonReply ==
    /\ Len(Summarized) = 1
    /\ Summarized[1].arg.called
    /\ IsReply(Summarized[1].arg.api)
    /\ ~json_loads(Summarized[1].arg.api.content).ok

\* body is reply without its leading and trailing whitespace
IsStripped(body, reply) ==
    \E i \in 1..(Len(reply) + 1), j \in 0..Len(reply) :
        /\ body = SubSeq(reply, i, j)
        /\ \A k \in 1..Len(reply) : (k < i \/ k > j) => IsSpace(reply[k])
        /\ body # <<>> => ~IsSpace(body[1]) /\ ~IsSpace(body[Len(body)])

\* C10 as stated: for a reply that is not parseable as JSON, the digest's body
\* is the reply text verbatim and its topic list is empty.
C10_RawReplyVerbatim ==
    (Done /\ entry = "summarize_news" /\ NonJsonReply) =>
        /\ result.some # NoneVal
        /\ result.some.summary_text = Summarized[1].arg.api.content
        /\ result.some.key_topics = <<>>

\* C10 amended: for a reply that is not parseable as JSON, summarize_news
\* returns a digest whose body is the reply text with its leading and trailing
\* whitespace removed, and whose topic list is empty.
C10_RawReplyStripped ==
    (Done /\ entry = "summarize_news" /\ NonJsonReply) =>
        /\ result.some # NoneVal
        /\ IsStripped(result.some.summary_text, Summarized[1].arg.api.content)
        /\ result.some.key_topics = <<>>

\* A non-JSON reply with whitespace around it, which the body does not keep.
C10_Witness ==
    /\ Done
    /\ entry = "summarize_news"
    /\ NonJsonReply
    /\ result.some # NoneVal
    /\ result.some.summary_text # Summarized[1].arg.api.content
    /\ result.some.summary_text # <<>>

\* The summarize_news call received a reply text from the provider.
ReplyReceived ==
    /\ Len(Summarized) = 1
    /\ Summarized[1].arg.called
    /\ IsReply(Summarized[1].arg.api)

\* The reply is a JSON document that is not an object.
NonObjectReply ==
    /\ ReplyReceived
    /\ json_loads(Summarized[1].arg.api.content).ok
    /\ json_loads(Summarized[1].arg.api.content).value.kind # "object"

\* C11: generation never fails because of the reply's structure: for every
\* reply text the provider returns without a fault (a JSON array, string or
\* number included), summarize_news returns a digest.
C11_AnyReplyYieldsDigest ==
    (Done /\ entry = "summarize_news" /\ ReplyReceived) => result.some # NoneVal

\* What the code keeps of C11: a reply that is not JSON, or that is a JSON
\* object, yields a digest.
ObjectOrTextReplyYieldsDigest ==
    (Done /\ entry = "summarize_news" /\ ReplyReceived /\ ~NonObjectReply) =>
        result.some # NoneVal

\* The number of messages of a list, counted one by one.
MessagesIn(items) ==
    Cardinality({ p \in (1..Len(items)) \X (1..ScanLimit) : p[2] <= items[p[1]].n })

\* The prompt of the call was built from the truncated concatenation.
Truncated == TextLen(combined_text(news_items)) > MaxLength

\* C12: every digest summarize_news produces has news_count equal to the
\* number of messages passed to it, whatever the number of topics, the number
\* of messages with blank text, and whether the text was truncated.
C12_ItemCountIsInputCount ==
    (Done /\ entry = "summarize_news" /\ result.some # NoneVal) =>
        result.some.news_count = MessagesIn(news_items)

\* A digest made from a blank message and a long one, its prompt truncated,
\* with one topic for two messages.
C12_Witness ==
    /\ Done
    /\ entry = "summarize_news"
    /\ result.some # NoneVal
    /\ Len(news_items) = 2
    /\ result.some.news_count = 2
    /\ Len(news_texts(news_items)) = 1
    /\ Len(result.some.key_topics) = 1
    /\ Truncated
    /\ Summarized[1].arg.prompt.some = << <<Rep("z", MaxLength), Ch("...")>> >>

\* t occurs in m from position p on
OccursAt(t, m, p) ==
    /\ p >= 1
    /\ p + Len(t) - 1 <= Len(m)
    /\ \A i \in 1..Len(t) : m[p + i - 1] = t[i]

Contains(m, t) == \E p \in 1..(Len(m) + 1) : OccursAt(t, m, p)

\* the line "k. tk" of a topics block
NumberedLine(topics, k) == <<Num(k), Ch(". ")>> \o topics[k]

RECURSIVE LineStart(_, _, _)
\* where line k starts when line 1 starts at p and each line ends with a newline
LineStart(topics, k, p) ==
    IF k = 1 THEN p
    ELSE LineStart(topics, k - 1, p) + Len(NumberedLine(topics, k - 1)) + 1

\* m holds the lines "1. t1" .. "n. tn" one after the other, each a whole line
HasNumberedLines(m, topics) ==
    \E p \in 2..Len(m) :
        \A k \in 1..Len(topics) :
            LET q == LineStart(topics, k, p)
            IN  /\ OccursAt(NumberedLine(topics, k), m, q)
                /\ m[q - 1] = NL
                /\ m[q + Len(NumberedLine(topics, k))] = NL

TitleLine(d) == <<Ch("<b>Daily Market Summary - "), DateStr(d), Ch("</b>"), NL>>

CountLine(c) == <<Ch("Based on "), Num(c), Ch(" news items")>>

\* C13: the message of a digest with topics t1..tn (n >= 1) holds the lines
\* "1. t1", ..., "n. tn" one after the other, numbered from 1; with no topic
\* the topics block is absent; in both cases the message starts with the title
\* line that embeds the date, contains the body and ends with the item-count
\* line.
C13_FormatLayout ==
    (Done /\ entry = "format_summary_message") =>
        /\ OccursAt(TitleLine(summary.date), message, 1)
        /\ Contains(message, summary.summary_text)
        /\ OccursAt(CountLine(summary.news_count), message,
                    Len(message) - Len(CountLine(summary.news_count)) + 1)
        /\ IF summary.key_topics # <<>>
           THEN HasNumberedLines(message, summary.key_topics)
           ELSE /\ ~Contains(message, <<Ch("<b>Key Topics:</b>")>>)
                /\ \A i \in 1..Len(message) : "num" \in DOMAIN message[i] => i = Len(message) - 1

\* A message of a digest with three topics, two of them equal.
C13_Witness ==
    /\ Done
    /\ entry = "format_summary_message"
    /\ Len(summary.key_topics) = 3
    /\ summary.key_topics[1] = summary.key_topics[3]
    /\ summary.key_topics[1] # summary.key_topics[2]
    /\ Contains(message, <<NL, Num(1), Ch(". "), Ch("A"), NL, Num(2), Ch(". "), Ch("B"),
                           NL, Num(3), Ch(". "), Ch("A"), NL>>)

\* C14: for every raw text that is empty or does not start with '/',
\* parse_command returns (None, []).
C14_NotACommand ==
    (Done /\ entry = "parse_command"
          /\ (inbound.text = <<>> \/ inbound.text[1] # Ch("/"))) =>
        /\ result.some.command = NoneVal
        /\ result.some.args = <<>>

\* A text with a '/' that is not its first character.
C14_Witness ==
    /\ Done
    /\ entry = "parse_command"
    /\ Len(inbound.text) >= 2
    /\ IsSpace(inbound.text[1])
    /\ inbound.text[2] = Ch("/")
    /\ result.some = NotCommand

HasSpace(t) == \E i \in 1..Len(t) : IsSpace(t[i])

RECURSIVE Collapse(_)
\* t with every run of whitespace made one space, and none at its end
Collapse(t) ==
    IF t = <<>> THEN <<>>
    ELSE IF ~IsSpace(Head(t)) THEN <<Head(t)>> \o Collapse(Tail(t))
    ELSE IF Tail(t) = <<>> \/ IsSpace(Head(Tail(t))) THEN Collapse(Tail(t))
    ELSE <<Ch(" ")>> \o Collapse(Tail(t))

RECURSIVE Spaced(_)
\* the tokens, each with a space before it
Spaced(tokens) ==
    IF tokens = <<>> THEN <<>>
    ELSE <<Ch(" ")>> \o Head(tokens) \o Spaced(Tail(tokens))

\* text is '/' + CMD followed by the whitespace-separated tokens args, and
\* command is CMD in lower case
IsParseOf(text, command, args) ==
    /\ ~HasSpace(command)
    /\ Len(text) >= Len(command) + 1
    /\ \A i \in 1..Len(command) :
          \/ command[i] = text[i + 1] /\ ~(\E j \in 1..Len(Uppers) : text[i + 1] = Ch(SubSeq(Uppers, j, j)))
          \/ \E j \in 1..Len(Uppers) :
                /\ text[i + 1] = Ch(SubSeq(Uppers, j, j))
                /\ command[i] = Ch(SubSeq(Lowers, j, j))
    /\ \A i \in 1..Len(args) : args[i] # <<>> /\ ~HasSpace(args[i])
    /\ Collapse(SubSeq(text, Len(command) + 2, Len(text))) = Spaced(args)

\* C15: for every raw text '/' + CMD followed by whitespace-separated tokens
\* a1..ak, parse_command returns (lowercase(CMD), [a1, ..., ak]), the order and
\* the case of the arguments kept; it returns for every text.
C15_ParseCommand ==
    (Done /\ entry = "parse_command") =>
        /\ result # NoneVal
        /\ (inbound.text # <<>> /\ inbound.text[1] = Ch("/")) =>
              /\ result.some.command # NoneVal
              /\ IsParseOf(inbound.text, result.some.command.some, result.some.args)

\* An upper-case command with two arguments of different case.
C15_Witness ==
    /\ Done
    /\ entry = "parse_command"
    /\ inbound.text = Str("/B a B")
    /\ result.some = [command |-> Some(Str("b")), args |-> <<Str("a"), Str("B")>>]

\* process_command has returned or raised.
Served == entry = "process_command" /\ pc = "done"

\* the calls of the request being served, the note of the request first
CurrentCalls == SubSeq(log, LastUpdate, Len(log))

\* the replies sent (attempted) for the request being served
BotSends == SelectSeq(CurrentCalls, LAMBDA c : c.op = "send")

\* the roster and the digest history the request met
RosterBefore == log[LastUpdate].arg.roster

DigestsBefore == log[LastUpdate].arg.digests

NoLeadingSlash == inbound.text = <<>> \/ inbound.text[1] # Ch("/")

\* C16: for every inbound text that is not a command (no leading '/'),
\* process_command returns True, sends nothing and leaves the roster and the
\* digest history unchanged.
C16_NonCommandIgnored ==
    (Served /\ NoLeadingSlash) =>
        /\ ~exc
        /\ result = Some(TRUE)
        /\ BotSends = <<>>
        /\ Len(CurrentCalls) = 1
        /\ roster = RosterBefore
        /\ digests = DigestsBefore

\* "hello" served with subscribers in the roster and digests in the history.
C16_Witness ==
    /\ Served
    /\ inbound.text = Str("hello")
    /\ roster # <<>>
    /\ digests # <<>>
    /\ result = Some(TRUE)

\* exactly one reply, sent to the issuing chat id, the 'unknown command'
\* message with the command name in it; the roster as it was
OneUnknownCommandReply ==
    /\ Len(BotSends) = 1
    /\ BotSends[1].arg.to = inbound.chat_id
    /\ OccursAt(<<Ch("Unknown command: <code>")>>, BotSends[1].arg.text, 1)
    /\ OccursAt(Command.some, BotSends[1].arg.text, 2)
    /\ roster = RosterBefore

\* C17 as stated: for every command name outside {start, subscribe,
\* unsubscribe, get_latest, help}, process_command sends exactly one reply to
\* the issuing chat id, the 'unknown command' message naming the command, and
\* the roster is unchanged.
C17_UnknownCommandReply ==
    (Served /\ Command # NoneVal /\ Command.some \notin command_handlers) =>
        OneUnknownCommandReply

\* C17 amended: for every command name that is not empty and is outside
\* {start, subscribe, unsubscribe, get_latest, help}, process_command sends
\* exactly one reply to the issuing chat id, the 'unknown command' message
\* naming the command, and the roster is unchanged.
C17_NonEmptyUnknownCommandReply ==
    (Served /\ Command # NoneVal /\ Command.some \notin command_handlers
            /\ Command.some # <<>>) =>
        OneUnknownCommandReply

\* "/foo" answered with the message that names foo.
C17_Witness ==
    /\ Served
    /\ inbound.text = Str("/foo")
    /\ roster # <<>>
    /\ Len(BotSends) = 1
    /\ BotSends[1].ok
    /\ Contains(BotSends[1].arg.text, Str("foo"))

\* the inbound text is a command the router dispatches
Dispatched == Command # NoneVal /\ Command.some # <<>>

LastSend == BotSends[Len(BotSends)]

\* The handler of the request raised: the send of a handler without a
\* try/except raised, or the send in the except clause of a handler with one.
HandlerRaised ==
    IF Command.some \in GuardedHandlers
    THEN Len(BotSends) >= 2 /\ BotSends[2].arg.outcome = "raise"
    ELSE Len(BotSends) >= 1 /\ BotSends[1].arg.outcome = "raise"

\* C18: for every recognized or unknown command, process_command returns the
\* success flag of the reply sent to the user, whatever the store action did;
\* when a handler raises, process_command does not propagate the exception but
\* sends the generic error reply and returns the flag of that send.
C18_ReturnIsReplyFlag ==
    (Served /\ Dispatched) =>
        /\ ~exc
        /\ BotSends # <<>>
        /\ result = Some(LastSend.ok)
        /\ HandlerRaised => LastSend.arg.text = get_error_message

\* What the code keeps of C18: when no exception leaves process_command, it
\* returns the flag of the last reply sent; an exception leaves it only when
\* the send of the unknown-command reply or of the generic error reply raised.
ReturnIsReplyFlagUnlessSendRaised ==
    (Served /\ Dispatched) =>
        /\ BotSends # <<>>
        /\ ~exc => result = Some(LastSend.ok)
        /\ exc =>
              /\ LastSend.arg.outcome = "raise"
              /\ \/ Command.some \notin command_handlers
                 \/ LastSend.arg.text = get_error_message

\* the store calls of the request being served
StoreCalls == SelectSeq(CurrentCalls, LAMBDA c : c.op \in StoreOps)

StoreFaulted == \E i \in 1..Len(StoreCalls) : ~StoreCalls[i].ok

ErrorReplies ==
    { get_error_message, get_subscribe_error_message,
      get_unsubscribe_error_message, get_latest_error_message }

NoOpReplies ==
    { get_subscribe_already_message, get_unsubscribe_not_subscribed_message,
      get_no_summary_message }

\* C19: whenever the store operation behind /subscribe, /unsubscribe or
\* /get_latest fails, the reply sent to the user is an error reply: not the
\* success confirmation and not the no-op reply.
C19_StoreFaultGetsErrorReply ==
    (Served /\ StoreFaulted) =>
        /\ BotSends # <<>>
        /\ BotSends[1].arg.text \in ErrorReplies

\* What the code does on a store fault: the first reply is the no-op reply
\* of the command, and the roster is as it was.
StoreFaultGetsNoOpReply ==
    (Served /\ StoreFaulted) =>
        /\ BotSends # <<>>
        /\ BotSends[1].arg.text \in NoOpReplies
        /\ roster = RosterBefore

\* the store call of the request served before this one, if it made one
PreviousStoreCalls == SubSeq(log, 1, LastUpdate - 1)

\* C20: /subscribe from an id already in the roster replies 'already
\* subscribed' and leaves the roster and its cardinality unchanged;
\* /unsubscribe from an id not in the roster replies 'not subscribed' and
\* leaves the roster unchanged; so a subscribe (or unsubscribe) that follows
\* an applied one of the same id leaves the roster as the first one left it.
C20_RosterIdempotent ==
    (Served /\ StoreCalls # <<>>) =>
        LET c == StoreCalls[1]
        IN  /\ (c.op = "add_chat_id" /\ c.arg.id \in Range(RosterBefore)) =>
                  /\ roster = RosterBefore
                  /\ Len(roster) = Len(RosterBefore)
                  /\ BotSends[1].arg.text = get_subscribe_already_message
            /\ (c.op = "remove_chat_id" /\ c.arg.id \notin Range(RosterBefore)) =>
                  /\ roster = RosterBefore
                  /\ BotSends[1].arg.text = get_unsubscribe_not_subscribed_message
            /\ \A i \in 1..Len(PreviousStoreCalls) :
                  LET p == PreviousStoreCalls[i]
                  IN  (p.op = c.op /\ p.arg.id = c.arg.id /\ p.ok
                          /\ c.op \in {"add_chat_id", "remove_chat_id"}) =>
                        roster = p.arg.after

\* A /subscribe that added the id, followed by a /subscribe of the same id
\* that met no store fault.
C20_Witness ==
    /\ Served
    /\ Len(StoreCalls) = 1
    /\ Len(PreviousStoreCalls) = 1
    /\ PreviousStoreCalls[1].op = "add_chat_id"
    /\ PreviousStoreCalls[1].arg.value
    /\ StoreCalls[1].op = "add_chat_id"
    /\ StoreCalls[1].ok
    /\ StoreCalls[1].arg.id = PreviousStoreCalls[1].arg.id
    /\ ~StoreCalls[1].arg.value
    /\ roster = PreviousStoreCalls[1].arg.after
    /\ BotSends[1].arg.text = get_subscribe_already_message

\* how far the run is from its return: the steps of lines 216-258 counted
\* from the end (the save comes before the sends in daily_job.py, after them
\* in aws_lambda.py) ...
Stage ==
    CASE pc = "validate" -> 8
      [] pc = "dump" -> 7
      [] pc = "get_entity" -> 6
      [] pc = "scan" -> 5
      [] pc = "summarize" -> 4
      [] pc = "get_chat_ids" -> 3
      [] pc = "save" -> IF impl = "modular" THEN 2 ELSE 1
      [] pc = "send" -> IF impl = "modular" THEN 1 ELSE 2
      [] pc = "finally" -> 0
      [] OTHER -> -1

\* ... and the turns its loop has left
Remaining ==
    IF pc = "scan" THEN Len(Stream) - pos
    ELSE IF pc = "send" THEN Len(chat_ids) - idx
    ELSE 0

\* C25: run_daily_job_async always terminates, and what it returns is a
\* boolean: no exception of a collaborator (connect, get_entity, the scan,
\* disconnect, the provider, get_chat_ids, save, send) reaches its caller.
\* Termination: every step brings the run closer to its return (a later stage,
\* or fewer turns left in the same loop), and a run that has not returned can
\* always take a step, whatever its collaborators did.
C25_TerminatesWithBoolean ==
    /\ [][ \/ Stage' < Stage
           \/ Stage' = Stage /\ Remaining' < Remaining /\ Remaining' >= 0 ]_vars
    /\ [](~Done => ENABLED Next)
    /\ [](Done => result \in {Some(TRUE), Some(FALSE)})

\* A run in which get_chat_ids raised and disconnect raised as well.
C25_Witness ==
    /\ Done
    /\ exc
    /\ \E i \in 1..Len(log) : log[i].op = "get_chat_ids" /\ ~log[i].ok
    /\ \E i \in 1..Len(log) : log[i].op = "disconnect" /\ ~log[i].ok
    /\ result = Some(FALSE)

\* C26: in a run that renders a digest the save is attempted first, then the
\* roster is fetched, then the deliveries are attempted: no roster fetch and
\* no delivery attempt precedes the save attempt.
C26_SaveThenFetchThenDeliver ==
    \A i \in 1..Len(log) :
        /\ log[i].op \in {"get_chat_ids", "send"} =>
              \E j \in 1..(i - 1) : log[j].op = "save"
        /\ log[i].op = "send" =>
              \E j \in 1..(i - 1) : log[j].op = "get_chat_ids"

\* What the code does: the roster is fetched before anything else; the
\* deliveries follow the fetch; daily_job.py saves between the two, and
\* aws_lambda.py after the last delivery.
FetchThenSaveOrDeliver ==
    \A i \in 1..Len(log) :
        /\ log[i].op \in {"save", "send"} =>
              \E j \in 1..(i - 1) : log[j].op = "get_chat_ids" /\ log[j].ok
        /\ (log[i].op = "send" /\ impl = "modular") =>
              \E j \in 1..(i - 1) : log[j].op = "save"
        /\ (log[i].op = "save" /\ impl = "lambda") =>
              /\ Len(Sends) = Len(chat_ids)
              /\ Len(chat_ids) > 0
              /\ i = Len(log) \/ log[i + 1].op = "disconnect"

\* the roster fetch of the run returned
RosterFetched == \E i \in 1..Len(log) : log[i].op = "get_chat_ids" /\ log[i].ok

\* C27: when the fetched roster is empty, run_daily_job_async returns False
\* and attempts no delivery.
C27_EmptyRosterFails ==
    (Done /\ entry = "run_daily_job_async" /\ RosterFetched /\ chat_ids = <<>>) =>
        /\ result = Some(FALSE)
        /\ Sends = <<>>

\* A run that rendered a digest, fetched an empty roster and disconnected
\* without fault.
C27_Witness ==
    /\ Done
    /\ entry = "run_daily_job_async"
    /\ summary # NoneVal
    /\ RosterFetched
    /\ chat_ids = <<>>
    /\ \E i \in 1..Len(log) : log[i].op = "disconnect" /\ log[i].ok
    /\ result = Some(FALSE)

\* the k-th message the source yields is dated before the window's start
OldAt(k) == Stream[k].date # NoneVal /\ Lt(Stream[k].date, WindowStart)

\* the items the loop makes of the messages it accepts among `yielded`
Accepted(yielded) ==
    LET kept == SelectSeq(yielded, LAMBDA b : b.date # NoneVal /\ Truthy(b.text))
    IN  [ i \in 1..Len(kept) |-> NewsItem(kept[i]) ]

\* C28: early exit.  When, in a scan without fault, the k-th message the
\* source yields is the first one dated before the window's start, then
\* dump_news_for_date has consumed exactly k messages (none after that one)
\* and returns what it accepted of the k-1 messages yielded before: neither
\* the k-th message nor a later one is included, the earlier ones are
\* unaffected.
C28_EarlyExit ==
    (Done /\ entry = "dump_news_for_date" /\ NoFault) =>
        \A k \in 1..Len(Stream) :
            (OldAt(k) /\ \A j \in 1..(k - 1) : ~OldAt(j)) =>
                /\ Len(Calls("iter")) = k
                /\ result.some = Accepted(SubSeq(Stream, 1, k - 1))

\* A scan whose first message predates the window while the source would
\* have yielded a message of the window with text after it.
C28_Witness ==
    /\ Done
    /\ entry = "dump_news_for_date"
    /\ NoFault
    /\ Len(Stream) = 2
    /\ OldAt(1)
    /\ InWindow(Stream[2].date)
    /\ Truthy(Stream[2].text)
    /\ Len(Calls("iter")) = 1
    /\ result = Some(<<>>)

\* the source raised during the scan (in get_entity or in the iteration)
ScanFaulted ==
    /\ log # <<>>
    /\ log[Len(log)].op \in {"get_entity", "iter"}
    /\ ~log[Len(log)].ok

\* C29: when the channel source raises at any point of the scan,
\* dump_news_for_date returns the empty list, whatever it had accepted before
\* the fault, and the exception does not leave it.
C29_ScanFaultYieldsEmpty ==
    (entry = "dump_news_for_date" /\ ScanFaulted) =>
        /\ Done
        /\ result = Some(<<>>)

\* The source raised after messages had been accepted.
C29_Witness ==
    /\ entry = "dump_news_for_date"
    /\ ScanFaulted
    /\ log[Len(log)].op = "iter"
    /\ filtered_messages # <<>>
    /\ result = Some(<<>>)

ConnectFailed == \E i \in 1..Len(log) : log[i].op = "connect" /\ ~log[i].ok

\* C30: the connection is lazy and its failure is not fatal.
\* dump_news_for_date calls connect only when the dumper is not connected.
\* When connect fails, the dumper stays not connected, nothing is scanned and
\* dump_news_for_date returns the empty list; a run ends with False, with
\* nothing summarized, persisted or delivered.
C30_LazyConnect ==
    /\ [][ (log' # log /\ log'[Len(log')].op = "connect") => ~is_connected ]_vars
    /\ [](ConnectFailed =>
            /\ ~is_connected
            /\ Len(Calls("connect")) = 1
            /\ Calls("get_entity") = <<>> /\ Calls("iter") = <<>>
            /\ dumped = Some(<<>>)
            /\ entry = "dump_news_for_date" => result = Some(<<>>)
            /\ entry = "run_daily_job_async" =>
                  /\ Done => result = Some(FALSE)
                  /\ Len(log) = 1
                  /\ digests = <<>>)

\* A run whose connect failed and that has returned False.
C30_Witness ==
    /\ entry = "run_daily_job_async"
    /\ Done
    /\ ConnectFailed
    /\ client
    /\ ~is_connected
    /\ result = Some(FALSE)

(***************************************************************************)
(* Properties of the service (runs and commands on one store).             *)
(***************************************************************************)
\* the request served was a /get_latest whose query met no fault
LatestFetched ==
    /\ Served
    /\ StoreCalls # <<>>
    /\ StoreCalls[1].op = "get_latest_summary"
    /\ StoreCalls[1].ok

\* C21: round trip.  Once a run has persisted the rendered digest M, a
\* /get_latest served before any later save (its query meeting no fault)
\* replies with exactly M; and M is the message of the newest record of the
\* history: no record has a later timestamp.
C21_SaveThenLatestRoundTrip ==
    (LatestFetched /\ digests # <<>>) =>
        LET saved == digests[Len(digests)]
        IN  /\ BotSends[1].arg.text = saved.message
            /\ StoreCalls[1].arg.value = Some(saved.message)
            /\ \A k \in 1..Len(digests) : Le(digests[k].timestamp, saved.timestamp)

\* Two runs persisted different digests, and a /get_latest served after the
\* second one was answered with the second digest.
C21_Witness ==
    /\ LatestFetched
    /\ Len(digests) = 2
    /\ digests[1].message # digests[2].message
    /\ BotSends[1].ok
    /\ BotSends[1].arg.text = digests[2].message

\* C22: the digest history is append-only.  No step of a run or of a command
\* removes or modifies a persisted record: the history before a step is a
\* prefix of the history after it; a step adds at most one record, only a run
\* adds one, and a run that has attempted a save adds no further record.
C22_HistoryAppendOnly ==
    [][ /\ Len(digests') >= Len(digests)
        /\ SubSeq(digests', 1, Len(digests)) = digests
        /\ Len(digests') <= Len(digests) + 1
        /\ (digests' # digests) =>
              /\ entry = "run_daily_job_async"
              /\ Calls("save") = <<>> ]_vars

\* Two runs have persisted a record each, the older one is still the first
\* row, and a command that changed the roster has been served since.
C22_Witness ==
    /\ Served
    /\ Len(digests) = 2
    /\ Lt(digests[1].timestamp, digests[2].timestamp)
    /\ StoreCalls # <<>>
    /\ StoreCalls[1].op \in {"add_chat_id", "remove_chat_id"}
    /\ StoreCalls[1].arg.value

\* C23: a run persists a digest record only if at least one of its deliveries
\* succeeded, so that (save faults aside) the run has persisted one record
\* exactly when it returned True.
C23_SavedOnlyIfDelivered ==
    (Done /\ entry = "run_daily_job_async") =>
        /\ (digests # <<>>) => SomeSendOk
        /\ ~SaveRaised => (Len(digests) = 1 <=> result = Some(TRUE))

(***************************************************************************)
(* Properties of the webhook entry point.                                  *)
(***************************************************************************)
\* the event handle_webhook_update was called with
Event == Calls("webhook")[1].arg

IsObject(r) == ~r.raised /\ r.value.kind = "object"

\* The event carries an update object whose message object has a chat id and
\* a text (a str that is not empty).
WellFormed(event) ==
    LET u == Decode(EventBody(event))
    IN  /\ IsObject(u)
        /\ IsObject(Item(u.value, "message"))
        /\ IsObject(Item(Item(u.value, "message").value, "chat"))
        /\ ~Item(Item(Item(u.value, "message").value, "chat").value, "id").raised
        /\ ~Item(Item(u.value, "message").value, "text").raised
        /\ Item(Item(u.value, "message").value, "text").value.kind = "string"
        /\ Item(Item(u.value, "message").value, "text").value.str # ""

\* C24: every malformed or unrecognized payload (a body that is no JSON, JSON
\* that is no update object, an update without message, a message without
\* chat id or text) is answered with status 200, and causes no store call and
\* no send: roster and digest history stay as they were.
C24_MalformedAcknowledged ==
    (pc = "returned" /\ ~WellFormed(Event)) =>
        /\ result.some.statusCode = 200
        /\ Len(log) = 1

\* What the code does for such a payload: no store call and no send, and a
\* status of 200, 400 (the body is no JSON) or 500 (an exception).
MalformedCausesNoEffect ==
    (pc = "returned" /\ ~WellFormed(Event)) =>
        /\ result.some.statusCode \in {200, 400, 500}
        /\ (result.some.statusCode = 400) <=> Decode(EventBody(Event)).raised
        /\ Len(log) = 1

(***************************************************************************)
(* Further properties of summarize_news.                                   *)
(***************************************************************************)
\* no message of the list has text left after trimming
AllBlank(items) == \A i \in 1..Len(items) : Strip(items[i].text) = <<>>

\* C31: when no message passed to summarize_news has non-empty text after
\* trimming whitespace, summarize_news returns no digest and the completion
\* call of the provider is not made.
C31_NoContent ==
    (Done /\ entry = "summarize_news" /\ AllBlank(news_items)) =>
        /\ result = Some(NoneVal)
        /\ ~ProviderCalled

\* Messages whose texts are whitespace only, the provider's library present.
C31_Witness ==
    /\ Done
    /\ entry = "summarize_news"
    /\ Len(news_items) = 2
    /\ \A i \in 1..2 : news_items[i].text = <<Ch(" ")>>
    /\ Summarized[1].arg.lib = "ok"
    /\ ~ProviderCalled
    /\ result = Some(NoneVal)

\* the texts of the messages that are not blank, in the order of the list
NonBlankTexts == TextsOf(SelectSeq(news_items, LAMBDA it : Strip(it.text) # <<>>))

\* their concatenation (with a blank line between two texts)
Concatenation == Join(NonBlankTexts, <<NL, NL>>)

\* the news text the prompt of the completion call embeds
Embedded == Summarized[1].arg.all_news.some

\* one bullet per text, in order
Bullets(texts) == Join([ i \in 1..Len(texts) |-> <<Ch("* ")>> \o texts[i] ], <<NL>>)

\* C32: prompt text budget.  When the concatenation of the message texts has
\* at most 8000 characters, the prompt holds one bullet per non-blank message
\* in the order of retrieval; when it has more, the prompt holds a single
\* bullet: the first 8000 characters of the concatenation followed by '...'.
\* The news text of the bullets never exceeds 8000 characters plus the marker.
C32_PromptBudget ==
    (Done /\ entry = "summarize_news" /\ ProviderCalled) =>
        /\ TextLen(Concatenation) <= MaxLength =>
              /\ Embedded = Bullets(NonBlankTexts)
              /\ TextLen(Embedded) = TextLen(Concatenation) + 2 + Len(NonBlankTexts) - 1
        /\ TextLen(Concatenation) > MaxLength =>
              /\ Embedded = <<Ch("* ")>> \o Prefix(Concatenation, MaxLength) \o <<Ch("...")>>
              /\ TextLen(Embedded) = 2 + MaxLength + 3
        /\ TextLen(Embedded) - 3 * Len(Summarized[1].arg.prompt.some) + 1
              <= MaxLength + 3

\* Two messages whose concatenation is one character over the budget.
C32_Witness ==
    /\ Done
    /\ entry = "summarize_news"
    /\ ProviderCalled
    /\ Len(NonBlankTexts) = 2
    /\ TextLen(Concatenation) = MaxLength + 1
    /\ Len(Summarized[1].arg.prompt.some) = 1
    /\ TextLen(Embedded) = MaxLength + 5

(***************************************************************************)
(* Concurrent command invocations.  Every webhook request is an invocation *)
(* of its own (aws_lambda.py lambda_handler), so several process_command   *)
(* calls can be in flight against the one store.  A store function opens a *)
(* connection of its own and runs one statement in one transaction         *)
(* (connection.py get_cursor; database.py lines 161-172): the database     *)
(* applies it atomically, under the unique chat_id of the table.  In this  *)
(* specification pc, inbound, message, result, exc and log hold one value  *)
(* per invocation, and the invocations are those of aws_lambda.py.         *)
(***************************************************************************)
MaxInvocations == 2     \* command invocations in flight together

Invocations == 1..MaxInvocations

ConcurrentTexts == { Str("/subscribe"), Str("/unsubscribe") }

ConcurrentRosters == { <<>>, <<1>>, <<2, 1>> }

InitConcurrent ==
    /\ inbound \in [Invocations -> [chat_id : {1, 2}, text : ConcurrentTexts]]
    /\ entry = "process_command"
    /\ impl = "lambda"
    /\ env = RequiredVars \cup DbVars
    /\ now = Instant(2 * SecondsPerDay + 43200, 5)
    /\ history = <<>>
    /\ roster \in ConcurrentRosters
    /\ digests = <<>>
    /\ pc = [p \in Invocations |-> "route"]
    /\ news_items = NoneVal
    /\ summary = NoneVal
    /\ message = [p \in Invocations |-> NoneVal]
    /\ client = FALSE
    /\ is_connected = FALSE
    /\ pos = 0
    /\ filtered_messages = <<>>
    /\ dumped = NoneVal
    /\ chat_ids = <<>>
    /\ idx = 0
    /\ success_count = 0
    /\ exc = [p \in Invocations |-> FALSE]
    /\ retval = NoneVal
    /\ result = [p \in Invocations |-> NoneVal]
    /\ log = [p \in Invocations |-> <<>>]

\* the command of invocation p
CommandOf(p) == parse_command(inbound[p].text).command

\* Invocation p runs process_command up to the end of its store transaction:
\* the parse (local to the invocation) and the one statement of the handler,
\* which the database applies to the roster as it is at that moment.
ConcurrentHandle ==
    \E p \in Invocations :
        /\ pc[p] = "route"
        /\ LET cmd == CommandOf(p)
               id == inbound[p].chat_id
               update == Call("update",
                             [chat_id |-> id, text |-> inbound[p].text,
                              roster |-> roster, digests |-> digests], TRUE)
           IN  IF cmd = NoneVal \/ ~Truthy(cmd.some)
               THEN /\ result' = [result EXCEPT ![p] = Some(NonCommandReturn)]
                    /\ pc' = [pc EXCEPT ![p] = "done"]
                    /\ log' = [log EXCEPT ![p] = <<update>>]
                    /\ UNCHANGED <<roster, message>>
               ELSE /\ pc' = [pc EXCEPT ![p] = "reply"]
                    /\ UNCHANGED result
                    /\ IF cmd.some = Str("subscribe")
                       THEN \E ok \in DbOutcomes(env) :
                            LET r == add_chat_id(roster, id, ok)
                            IN  /\ roster' = r.roster
                                /\ log' = [log EXCEPT ![p] = <<update,
                                              Call("add_chat_id",
                                                   [id |-> id, value |-> r.value,
                                                    after |-> r.roster], ok)>>]
                                /\ message' = [message EXCEPT ![p] =
                                                  IF r.value
                                                  THEN get_subscribe_success_message
                                                  ELSE get_subscribe_already_message]
                       ELSE IF cmd.some = Str("unsubscribe")
                       THEN \E ok \in DbOutcomes(env) :
                            LET r == remove_chat_id(roster, id, ok)
                            IN  /\ roster' = r.roster
                                /\ log' = [log EXCEPT ![p] = <<update,
                                              Call("remove_chat_id",
                                                   [id |-> id, value |-> r.value,
                                                    after |-> r.roster], ok)>>]
                                /\ message' = [message EXCEPT ![p] =
                                                  IF r.value
                                                  THEN get_unsubscribe_success_message
                                                  ELSE get_unsubscribe_not_subscribed_message]
                       ELSE /\ message' = [message EXCEPT ![p] =
                                              get_unknown_command_message(cmd.some)]
                            /\ log' = [log EXCEPT ![p] = <<update>>]
                            /\ UNCHANGED roster
        /\ UNCHANGED <<inbound, entry, impl, env, now, history, digests, client,
                       is_connected, pos, filtered_messages, dumped, news_items,
                       summary, chat_ids, idx, success_count, exc, retval>>

\* Invocation p sends a reply (as SendReply does for the single invocation).
ConcurrentReply ==
    \E p \in Invocations :
        /\ pc[p] \in {"reply", "reply_error", "reply_generic"}
        /\ \E outcome \in SendOutcomes(impl) :
            /\ log' = [log EXCEPT ![p] = Append(@, Call("send",
                          [to |-> inbound[p].chat_id, outcome |-> outcome,
                           text |-> message[p]], outcome = "ok"))]
            /\ IF outcome # "raise"
               THEN /\ result' = [result EXCEPT ![p] = Some(outcome = "ok")]
                    /\ pc' = [pc EXCEPT ![p] = "done"]
                    /\ UNCHANGED <<message, exc>>
               ELSE IF pc[p] = "reply" /\ CommandOf(p).some \in GuardedHandlers
               THEN /\ message' = [message EXCEPT ![p] =
                                      HandlerErrorMessage(CommandOf(p).some)]
                    /\ pc' = [pc EXCEPT ![p] = "reply_error"]
                    /\ UNCHANGED <<result, exc>>
               ELSE IF pc[p] # "reply_generic" /\ CommandOf(p).some \in command_handlers
               THEN /\ message' = [message EXCEPT ![p] = get_error_message]
                    /\ pc' = [pc EXCEPT ![p] = "reply_generic"]
                    /\ UNCHANGED <<result, exc>>
               ELSE /\ exc' = [exc EXCEPT ![p] = TRUE]
                    /\ pc' = [pc EXCEPT ![p] = "done"]
                    /\ UNCHANGED <<message, result>>
        /\ UNCHANGED <<inbound, entry, impl, env, now, history, roster, digests,
                       client, is_connected, pos, filtered_messages, dumped,
                       news_items, summary, chat_ids, idx, success_count, retval>>

NextConcurrent == ConcurrentHandle \/ ConcurrentReply

SpecConcurrent == InitConcurrent /\ [][NextConcurrent]_vars

\* how often id occurs in the roster
Occurrences(r, id) == Len(SelectSeq(r, LAMBDA x : x = id))

\* the invocations that carry /subscribe (/unsubscribe) for id
Subscribers(id) ==
    { p \in Invocations :
        inbound[p].chat_id = id /\ CommandOf(p) = Some(Str("subscribe")) }

Unsubscribers(id) ==
    { p \in Invocations :
        inbound[p].chat_id = id /\ CommandOf(p) = Some(Str("unsubscribe")) }

\* the reply of invocation p: the text of its first send
FirstReply(p) == SelectSeq(log[p], LAMBDA c : c.op = "send")[1].arg.text

\* invocation p has met a store fault
Faulted(p) == \E i \in 1..Len(log[p]) : ~log[p][i].ok /\ log[p][i].op \in StoreOps

AllServed == \A p \in Invocations : pc[p] = "done"

\* The /subscribe invocations for id are the only ones for it, the first of
\* them met a roster without it, and the store worked for each of them.
SubscribeRace(id) ==
    /\ AllServed
    /\ Subscribers(id) # {}
    /\ Unsubscribers(id) = {}
    /\ \E p \in Subscribers(id) : id \notin Range(log[p][1].arg.roster)
    /\ \A p \in Subscribers(id) : ~Faulted(p)

\* C33: under any interleaving of concurrent command invocations the roster
\* never holds an id twice; of k concurrent /subscribe commands for one id
\* that is not in the roster, exactly one replies with the success
\* confirmation, the other k-1 reply 'already subscribed', and the id is in
\* the roster exactly once afterwards.
C33_ConcurrentSubscribe ==
    /\ \A id \in 1..2 : Occurrences(roster, id) <= 1
    /\ \A id \in 1..2 : SubscribeRace(id) =>
          /\ Cardinality({ p \in Subscribers(id) :
                 FirstReply(p) = get_subscribe_success_message }) = 1
          /\ \A p \in Subscribers(id) :
                 FirstReply(p) \in { get_subscribe_success_message,
                                     get_subscribe_already_message }
          /\ Occurrences(roster, id) = 1

\* Every invocation is a /subscribe of id 1, which the roster does not hold,
\* and the one served last is the one that is told of the success.
C33_Witness ==
    /\ SubscribeRace(1)
    /\ Subscribers(1) = Invocations
    /\ FirstReply(MaxInvocations) = get_subscribe_success_message
    /\ \A p \in Invocations \ {MaxInvocations} :
           /\ FirstReply(p) = get_subscribe_already_message
           /\ log[p][1].arg.roster = log[MaxInvocations][2].arg.after

(***************************************************************************)
(* Overlapping daily runs, and commands that commit during a run.  Nothing *)
(* in run_daily_job_async or lambda_handler keeps a second invocation from *)
(* starting while one is in flight.  The stages up to the formatted        *)
(* message read the channel and call the provider; the runs meet at the    *)
(* store, so each run is taken from line 240 (aws_lambda.py line 614),     *)
(* where it holds its message.  In these specifications pc, now, message,  *)
(* chat_ids, idx, success_count, exc, retval, result and log hold one      *)
(* value per run, and inbound holds the commands committed so far.         *)
(***************************************************************************)
MaxOverlap == 2         \* daily runs in flight together

MaxCommits == 2         \* commands that commit while a run is in flight

OverlapRosters == { <<>>, <<1>>, <<1, 2>> }

\* the digest of the target date, as every run of that date formats it
OverlapMessage ==
    format_summary_message(Summary(1, <<Ch("Stocks rose.")>>, 1, <<>>))

\* The orchestrator run r executes: the one of impl, or, when the two are set
\* side by side, daily_job.py for run 1 and aws_lambda.py for run 2.
Orchestrator(r) ==
    IF impl # "both" THEN impl ELSE IF r = 1 THEN "modular" ELSE "lambda"

\* Mutant: each turn of the loop reads the recipient from the table.
LoopRecipientFromStore(fetched, stored, i) ==
    IF i <= Len(stored) THEN stored[i] ELSE fetched[i]

\* daily_job.py line 188, aws_lambda.py line 553: for chat_id in chat_ids --
\* the recipient of turn i is taken from the list the run fetched
LoopRecipient(fetched, stored, i) == fetched[i]

InitRuns(runs, impls) ==
    /\ inbound = <<>>
    /\ entry = "run_daily_job_async"
    /\ impl \in impls
    /\ env = RequiredVars \cup DbVars
    /\ now = [r \in runs |-> Instant(2 * SecondsPerDay + 43200 + r, 5)]
    /\ history = <<>>
    /\ roster \in OverlapRosters
    /\ digests = <<>>
    /\ pc = [r \in runs |-> "get_chat_ids"]
    /\ client = FALSE
    /\ is_connected = FALSE
    /\ pos = 0
    /\ filtered_messages = <<>>
    /\ dumped = NoneVal
    /\ news_items = NoneVal
    /\ summary = NoneVal
    /\ message = [r \in runs |-> OverlapMessage]
    /\ chat_ids = [r \in runs |-> <<>>]
    /\ idx = [r \in runs |-> 0]
    /\ success_count = [r \in runs |-> 0]
    /\ exc = [r \in runs |-> FALSE]
    /\ retval = [r \in runs |-> NoneVal]
    /\ result = [r \in runs |-> NoneVal]
    /\ log = [r \in runs |-> <<>>]

InitOverlap == InitRuns(1..MaxOverlap, {"modular", "lambda"})

\* the one roster fetch of run r (as GetChatIds); the log notes the rows
OverlapGetChatIds ==
    \E r \in DOMAIN pc :
        /\ pc[r] = "get_chat_ids"
        /\ \E ok \in DbOutcomes(env) :
            /\ log' = [log EXCEPT ![r] =
                          Append(@, Call("get_chat_ids", IF ok THEN roster ELSE <<>>, ok))]
            /\ IF ok
               THEN /\ chat_ids' = [chat_ids EXCEPT ![r] = roster]
                    /\ pc' = [pc EXCEPT ![r] =
                                 IF Orchestrator(r) = "modular" THEN "save" ELSE "send"]
                    /\ UNCHANGED exc
               ELSE /\ exc' = [exc EXCEPT ![r] = TRUE]
                    /\ pc' = [pc EXCEPT ![r] = "finally"]
                    /\ UNCHANGED chat_ids
        /\ UNCHANGED <<inbound, entry, impl, env, now, history, roster, digests,
                       client, is_connected, pos, filtered_messages, dumped,
                       news_items, summary, message, idx, success_count, retval,
                       result>>

\* the save of run r (as Save)
OverlapSave ==
    \E r \in DOMAIN pc :
        /\ pc[r] = "save"
        /\ \E ok \in DbOutcomes(env) :
            /\ log' = [log EXCEPT ![r] = Append(@, Call("save", message[r], ok))]
            /\ digests' = add_message_to_database(digests, now[r], message[r], ok)
        /\ IF Orchestrator(r) = "modular"
           THEN pc' = [pc EXCEPT ![r] = "send"] /\ UNCHANGED retval
           ELSE /\ pc' = [pc EXCEPT ![r] = "finally"]
                /\ retval' = [retval EXCEPT ![r] = SendResult(success_count[r])]
        /\ UNCHANGED <<inbound, entry, impl, env, now, history, roster, client,
                       is_connected, pos, filtered_messages, dumped, news_items,
                       summary, message, chat_ids, idx, success_count, exc, result>>

\* the empty-roster return, one turn of the loop or the loop's end of run r
\* (as Send)
OverlapSend ==
    \E r \in DOMAIN pc :
        /\ pc[r] = "send"
        /\ IF Len(chat_ids[r]) = 0
           THEN /\ retval' = [retval EXCEPT ![r] = NoRecipientsReturn]
                /\ pc' = [pc EXCEPT ![r] = "finally"]
                /\ UNCHANGED <<idx, success_count, log>>
           ELSE IF idx[r] < Len(chat_ids[r])
           THEN \E outcome \in {"ok", "false", "raise"} :
                /\ log' = [log EXCEPT ![r] = Append(@, Call("send",
                              [to |-> LoopRecipient(chat_ids[r], roster, idx[r] + 1),
                               outcome |-> outcome],
                              outcome = "ok"))]
                /\ success_count' = [success_count EXCEPT ![r] =
                                        IF outcome = "ok" THEN @ + 1 ELSE @]
                /\ idx' = [idx EXCEPT ![r] =
                              AfterSend(idx[r], outcome, Len(chat_ids[r]))]
                /\ UNCHANGED <<pc, retval>>
           ELSE /\ IF Orchestrator(r) = "modular"
                   THEN /\ pc' = [pc EXCEPT ![r] = "finally"]
                        /\ retval' = [retval EXCEPT ![r] =
                                         SendResult(success_count[r])]
                   ELSE pc' = [pc EXCEPT ![r] = "save"] /\ UNCHANGED retval
                /\ UNCHANGED <<idx, success_count, log>>
        /\ UNCHANGED <<inbound, entry, impl, env, now, history, roster, digests,
                       client, is_connected, pos, filtered_messages, dumped,
                       news_items, summary, message, chat_ids, exc, result>>

\* the return of run r (as Finally, the dumper already closed or never
\* connected)
OverlapFinally ==
    \E r \in DOMAIN pc :
        /\ pc[r] = "finally"
        /\ result' = [result EXCEPT ![r] = RunReturn(exc[r], retval[r])]
        /\ pc' = [pc EXCEPT ![r] = "done"]
        /\ UNCHANGED <<inbound, entry, impl, env, now, history, roster, digests,
                       client, is_connected, pos, filtered_messages, dumped,
                       news_items, summary, message, chat_ids, idx, success_count,
                       exc, retval, log>>

NextOverlap == OverlapGetChatIds \/ OverlapSave \/ OverlapSend \/ OverlapFinally

SpecOverlap == InitOverlap /\ [][NextOverlap]_vars

\* the calls of run r to operation op
RunCalls(r, op) == SelectSeq(log[r], LAMBDA c : c.op = op)

\* the ids run r has attempted to deliver to, in order
Attempted(r) == [ i \in 1..Len(RunCalls(r, "send")) |-> RunCalls(r, "send")[i].arg.to ]

\* the runs whose save has worked
Saved == { r \in DOMAIN pc : \E i \in 1..Len(log[r]) :
              log[r][i].op = "save" /\ log[r][i].ok }

\* the runs that have fetched a roster holding id
FetchedWith(id) ==
    { r \in DOMAIN pc : RunCalls(r, "get_chat_ids") # <<>>
                        /\ id \in Range(RunCalls(r, "get_chat_ids")[1].arg) }

AllReturned == \A r \in DOMAIN pc : pc[r] = "done"

\* C34: overlapping daily runs are not mutually excluded.  Runs in flight
\* together for one target date each do all of their work: the history gets
\* one record per run whose save worked, and a subscriber gets one delivery
\* attempt from every run that fetched a roster holding it; so two such runs
\* deliver the digest to a subscriber twice and append two records.
C34_OverlapNotExcluded ==
    /\ Len(digests) = Cardinality(Saved)
    /\ AllReturned =>
          \A id \in 1..2 : \A r \in FetchedWith(id) :
              Occurrences(Attempted(r), id) = 1

\* Two runs of one target date have both delivered the digest to subscriber 1
\* and both appended their record.
C34_Witness ==
    /\ AllReturned
    /\ \A r \in 1..2 :
          /\ \E i \in 1..Len(log[r]) :
                 log[r][i] = Call("send", [to |-> 1, outcome |-> "ok"], TRUE)
          /\ result[r] = Some(TRUE)
    /\ Len(digests) >= 2
    /\ digests[1].message = digests[2].message
    /\ DayOf(digests[1].timestamp) = DayOf(digests[2].timestamp)

(***************************************************************************)
(* The two orchestrators side by side: run 1 is daily_job.py, run 2 is     *)
(* aws_lambda.py, on the same roster and the same message.                 *)
(***************************************************************************)
InitPair == InitRuns(1..2, {"both"})

SpecPair == InitPair /\ [][NextOverlap]_vars

\* the outcomes of the collaborators of run r
Outcomes(r, op) == [ i \in 1..Len(RunCalls(r, op)) |->
                       IF op = "send" THEN RunCalls(r, op)[i].arg.outcome
                       ELSE RunCalls(r, op)[i].ok ]

\* The collaborators have answered the two runs alike: the roster fetch, each
\* recipient's delivery, and the save wherever both runs made it.
SameOutcomes ==
    /\ Outcomes(1, "get_chat_ids") = Outcomes(2, "get_chat_ids")
    /\ Outcomes(1, "send") = Outcomes(2, "send")
    /\ (RunCalls(1, "save") # <<>> /\ RunCalls(2, "save") # <<>>) =>
           Outcomes(1, "save") = Outcomes(2, "save")

\* C35: the two orchestrators are behaviourally equivalent: for every
\* combination of collaborator outcomes they return the same boolean and
\* produce the same set of delivery attempts and the same effect on the
\* digest history.
C35_OrchestratorsEquivalent ==
    (impl = "both" /\ AllReturned /\ SameOutcomes) =>
        /\ result[1] = result[2]
        /\ Range(Attempted(1)) = Range(Attempted(2))
        /\ (1 \in Saved) = (2 \in Saved)

\* What the code does: the two agree on the returned boolean and on the
\* delivery attempts, and on the history whenever the roster is not empty;
\* with an empty roster only daily_job.py makes the save.
EquivalentButForEmptyRoster ==
    (impl = "both" /\ AllReturned /\ SameOutcomes) =>
        /\ result[1] = result[2]
        /\ Attempted(1) = Attempted(2)
        /\ (chat_ids[1] # <<>> \/ exc[1]) => (1 \in Saved) = (2 \in Saved)
        /\ (chat_ids[1] = <<>> /\ ~exc[1]) =>
               /\ RunCalls(1, "save") # <<>>
               /\ RunCalls(2, "save") = <<>>

(***************************************************************************)
(* lambda_handler (aws_lambda.py lines 902-940).  An event is the dict the *)
(* runtime hands over; a key it does not have is NoneVal.                  *)
(***************************************************************************)
\* Mutant: the test for a scheduled event comes first.
lambda_dispatch_schedule_first(event) ==
    IF event.source = Some("aws.events") THEN "scheduled"
    ELSE IF \/ event.httpMethod # NoneVal
            \/ event.requestContext # NoneVal
            \/ (event.path # NoneVal /\ event.body # NoneVal)
    THEN "webhook"
    ELSE "default"

\* _is_api_gateway_event, lines 649-653
is_api_gateway_event(event) ==
    \/ event.httpMethod # NoneVal
    \/ event.requestContext # NoneVal
    \/ (event.path # NoneVal /\ event.body # NoneVal)

\* _is_eventbridge_event, line 666
is_eventbridge_event(event) ==
    event.source # NoneVal /\ event.source = Some("aws.events")

\* lines 905-926: the branch lambda_handler takes
lambda_dispatch(event) ==
    IF is_api_gateway_event(event) THEN "webhook"
    ELSE IF is_eventbridge_event(event) THEN "scheduled"
    ELSE "default"

\* lines 911-916, 921-926: the response after a daily run
RunResponse(success) == [statusCode |-> 200, success |-> success]

\* lambda_handler up to the call it makes: handle_webhook_update(event) or
\* run_daily_job_async()
LambdaHandler ==
    /\ pc = "lambda_handler"
    /\ LET branch == lambda_dispatch(inbound)
       IN  /\ log' = Append(log, Call("lambda_handler",
                                      [event |-> inbound, branch |-> branch], TRUE))
           /\ IF branch = "webhook"
              THEN entry' = "handle_webhook_update" /\ pc' = "webhook"
              ELSE entry' = "run_daily_job_async" /\ pc' = "validate"
    /\ UNCHANGED <<inbound, impl, env, now, history, roster, digests, client,
                   is_connected, pos, filtered_messages, dumped, news_items,
                   summary, message, chat_ids, idx, success_count, exc, retval,
                   result>>

\* lines 910-916, 920-926: the response that carries the run's boolean
LambdaReturn ==
    /\ pc = "done"
    /\ entry = "run_daily_job_async"
    /\ result' = Some(RunResponse(result.some))
    /\ pc' = "returned"
    /\ UNCHANGED <<inbound, entry, impl, env, now, history, roster, digests, client,
                   is_connected, pos, filtered_messages, dumped, news_items,
                   summary, message, chat_ids, idx, success_count, exc, retval,
                   log>>

\* Inputs of lambda_handler: every combination of the markers, with a body
\* that is a command, that is no JSON, or that is missing.
LambdaEvents ==
    { [httpMethod |-> h, path |-> p, source |-> s, body |-> b,
       requestContext |-> c] :
        h \in { NoneVal, Some("POST") },
        p \in { NoneVal, Some("/webhook") },
        s \in { NoneVal, Some("aws.events"), Some("aws.s3") },
        b \in { NoneVal, [str |-> <<Ch("{not json")>>],
                [str |-> <<Doc(JObject([update_id |-> JNum(7),
                                        message |-> JObject([chat |-> Chat,
                                            text |-> JStr("/subscribe")])]))>>] },
        c \in { NoneVal, [body |-> NoneVal] } }

InitLambda ==
    /\ inbound \in LambdaEvents
    /\ entry = "lambda_handler"
    /\ impl = "lambda"
    /\ env = RequiredVars \cup DbVars
    /\ now = Instant(2 * SecondsPerDay + 43200, 5)
    /\ history = ServiceHistory
    /\ roster \in ServiceRosters
    /\ digests = <<>>
    /\ pc = "lambda_handler"
    /\ news_items = NoneVal
    /\ summary = NoneVal
    /\ message = NoneVal
    /\ Fresh

NextLambda ==
    \/ LambdaHandler
    \/ NextWebhook
    \/ Next
    \/ LambdaReturn

SpecLambda == InitLambda /\ [][NextLambda]_vars

\* the event of the invocation
LambdaEvent == log[1].arg.event

\* the event carries a marker of the API gateway
HasGatewayMarker(event) ==
    \/ event.httpMethod # NoneVal
    \/ event.requestContext # NoneVal
    \/ (event.path # NoneVal /\ event.body # NoneVal)

\* the operations of a daily run, and those of the webhook and its router
RunOps == {"connect", "get_entity", "iter", "summarize", "get_chat_ids", "save",
           "send_run", "disconnect"}

RouterOps == {"webhook", "update", "add_chat_id", "remove_chat_id",
              "get_latest_summary", "send_reply"}

\* the operation of a logged call, a send told by its caller
OpOf(c) ==
    IF c.op # "send" THEN c.op
    ELSE IF "text" \in DOMAIN c.arg THEN "send_reply" ELSE "send_run"

Ops == { OpOf(log[i]) : i \in 2..Len(log) }

\* the calls of lambda_handler to run_daily_job_async and to
\* handle_webhook_update
RunsStarted ==
    Len(SelectSeq(log, LAMBDA c : c.op = "lambda_handler" /\ c.arg.branch # "webhook"))

RouterCalls ==
    Len(SelectSeq(log, LAMBDA c : c.op = "lambda_handler" /\ c.arg.branch = "webhook"))

\* C36: lambda_handler dispatches on the shape of the event and runs one path
\* per invocation: an event with a marker of the API gateway (httpMethod,
\* requestContext, or path and body) is handled by the webhook and its
\* command router only and starts no daily run, even when its source is
\* 'aws.events'; every other event, scheduled or of unknown shape, starts
\* exactly one daily run and does not invoke the router.
C36_OnePathPerInvocation ==
    (pc # "lambda_handler") =>
        /\ RunsStarted + RouterCalls = 1
        /\ HasGatewayMarker(LambdaEvent) =>
              /\ RunsStarted = 0
              /\ Ops \subseteq RouterOps
              /\ entry = "handle_webhook_update"
              /\ pc = "returned" => "statusCode" \in DOMAIN result.some
                                    /\ "success" \notin DOMAIN result.some
        /\ ~HasGatewayMarker(LambdaEvent) =>
              /\ RunsStarted = 1
              /\ Ops \subseteq RunOps
              /\ entry = "run_daily_job_async"
              /\ pc = "returned" => result.some \in { RunResponse(b) : b \in BOOLEAN }

\* An event that has a marker of the gateway and the source of a schedule
\* has been served as a command and has returned; no run was started.
C36_Witness ==
    /\ pc = "returned"
    /\ LambdaEvent.source = Some("aws.events")
    /\ LambdaEvent.httpMethod = NoneVal
    /\ LambdaEvent.requestContext = NoneVal
    /\ LambdaEvent.path # NoneVal
    /\ "add_chat_id" \in Ops
    /\ RunsStarted = 0
    /\ result = Some(Response(200, TRUE))

(***************************************************************************)
(* A run during whose fan-out commands commit: /subscribe and /unsubscribe *)
(* are served by invocations of their own (lambda_handler), and their      *)
(* store transactions commit between any two steps of the run.             *)
(***************************************************************************)
InitFanOut == InitRuns({1}, {"modular", "lambda"})

\* The store transaction of a /subscribe or /unsubscribe of some chat commits
\* a change of the table.  The log of every run in flight notes it.
RosterCommit ==
    /\ Len(inbound) < MaxCommits
    /\ \E id \in 1..2 : \E text \in ConcurrentTexts :
        LET subscribe == parse_command(text).command = Some(Str("subscribe"))
            r == IF subscribe THEN add_chat_id(roster, id, TRUE)
                 ELSE remove_chat_id(roster, id, TRUE)
            call == Call(IF subscribe THEN "add_chat_id" ELSE "remove_chat_id",
                         [id |-> id, value |-> r.value, after |-> r.roster], TRUE)
        IN  /\ r.value
            /\ inbound' = Append(inbound, [chat_id |-> id, text |-> text])
            /\ roster' = r.roster
            /\ log' = [ run \in DOMAIN log |->
                          IF pc[run] = "done" THEN log[run]
                          ELSE Append(log[run], call) ]
    /\ UNCHANGED <<entry, impl, env, now, history, digests, pc, client,
                   is_connected, pos, filtered_messages, dumped, news_items,
                   summary, message, chat_ids, idx, success_count, exc, retval,
                   result>>

NextFanOut == NextOverlap \/ RosterCommit

SpecFanOut == InitFanOut /\ [][NextFanOut]_vars

\* the rows the roster fetch of run r returned
Fetched(r) == RunCalls(r, "get_chat_ids")[1].arg

\* where in the log of run r its roster fetch is
FetchAt(r) == CHOOSE i \in 1..Len(log[r]) : log[r][i].op = "get_chat_ids"

\* The command `op` of id committed after the roster fetch of run r and, when
\* `before` holds, before the run's delivery attempt to id.
CommittedAfterFetch(r, op, id, before) ==
    \E i \in (FetchAt(r) + 1)..Len(log[r]) :
        /\ log[r][i].op = op
        /\ log[r][i].arg.id = id
        /\ log[r][i].arg.value
        /\ before => \E j \in (i + 1)..Len(log[r]) :
                         log[r][j].op = "send" /\ log[r][j].arg.to = id

\* C37: the ids a run attempts delivery to are exactly the roster its single
\* roster fetch returned.  A subscribe or unsubscribe that commits after the
\* fetch does not change the run's recipients: an id unsubscribed during the
\* fan-out still gets a delivery attempt, an id subscribed during it gets
\* none.
C37_RecipientsAreFetchedRoster ==
    \A r \in DOMAIN pc :
        /\ Len(RunCalls(r, "get_chat_ids")) <= 1
        /\ RunCalls(r, "get_chat_ids") = <<>> => Attempted(r) = <<>>
        /\ RunCalls(r, "get_chat_ids") # <<>> =>
              /\ Attempted(r) = SubSeq(Fetched(r), 1, Len(Attempted(r)))
              /\ pc[r] = "done" => Attempted(r) = Fetched(r)

\* The run fetched the roster <<1>>; then chat 1 unsubscribed and chat 2
\* subscribed; the run has made its one attempt, to chat 1, and has returned.
C37_Witness ==
    /\ pc[1] = "done"
    /\ RunCalls(1, "get_chat_ids") # <<>>
    /\ Fetched(1) = <<1>>
    /\ CommittedAfterFetch(1, "remove_chat_id", 1, TRUE)
    /\ CommittedAfterFetch(1, "add_chat_id", 2, FALSE)
    /\ roster = <<2>>
    /\ Attempted(1) = <<1>>

(***************************************************************************)
(* Further properties of process_command.                                  *)
(***************************************************************************)
\* the request being served, as process_command received it
Request == log[LastUpdate].arg

\* process_command is past its parse
Routed == entry = "process_command" /\ pc # "route"

\* The effect and the reply of the recognized command cmd of chat x on the
\* roster `before`, given the store call it made (`calls`): told from the
\* command name alone.
ExpectedRoster(cmd, x, before, calls) ==
    IF cmd = Str("subscribe") /\ calls[1].ok /\ x \notin Range(before)
    THEN Append(before, x)
    ELSE IF cmd = Str("unsubscribe") /\ calls[1].ok
    THEN SelectSeq(before, LAMBDA id : id # x)
    ELSE before

ExpectedReply(cmd, x, before, calls) ==
    IF cmd = Str("start") THEN get_welcome_message
    ELSE IF cmd = Str("help") THEN get_help_message
    ELSE IF cmd = Str("subscribe")
    THEN IF calls[1].ok /\ x \notin Range(before)
         THEN get_subscribe_success_message
         ELSE get_subscribe_already_message
    ELSE IF cmd = Str("unsubscribe")
    THEN IF calls[1].ok /\ x \in Range(before)
         THEN get_unsubscribe_success_message
         ELSE get_unsubscribe_not_subscribed_message
    ELSE IF calls[1].arg.value # NoneVal /\ Truthy(calls[1].arg.value.some)
    THEN calls[1].arg.value.some
    ELSE get_no_summary_message

\* C38: command frame.  process_command for chat id X, whatever the text,
\* changes the roster membership of no id other than X, leaves the digest
\* history as it is and sends replies to X only; /start, /help, /get_latest,
\* unknown commands and texts that are no command leave the whole roster as
\* it is; the effect and the reply of a recognized command do not depend on
\* the arguments that follow it.
C38_CommandFrame ==
    Routed =>
        \A req \in {Request} : \A cmd \in {Command} :
        \A sends \in {BotSends} : \A calls \in {StoreCalls} :
            /\ \A id \in (1..MaxRoster) \ {req.chat_id} :
                   Occurrences(roster, id) = Occurrences(req.roster, id)
            /\ digests = req.digests
            /\ \A i \in 1..Len(sends) : sends[i].arg.to = req.chat_id
            /\ (cmd = NoneVal
                  \/ cmd.some \notin {Str("subscribe"), Str("unsubscribe")}) =>
                   roster = req.roster
            /\ (cmd # NoneVal /\ cmd.some \in command_handlers /\ pc # "handle") =>
                   /\ roster = ExpectedRoster(cmd.some, req.chat_id, req.roster, calls)
                   /\ sends # <<>> =>
                          sends[1].arg.text =
                              ExpectedReply(cmd.some, req.chat_id, req.roster, calls)

\* Chat 1 has sent '/SUBSCRIBE now' while chat 2 was the only subscriber: it
\* was subscribed and told so, as by '/subscribe', and chat 2 still is.
C38_Witness ==
    /\ Served
    /\ inbound = [chat_id |-> 1, text |-> Str("/SUBSCRIBE now")]
    /\ parse_command(inbound.text).args # <<>>
    /\ RosterBefore = <<2>>
    /\ roster = <<2, 1>>
    /\ Len(BotSends) = 1
    /\ BotSends[1].arg = [to |-> 1, outcome |-> "ok",
                          text |-> get_subscribe_success_message]

\* the text is '/' alone or '/' followed by whitespace and whatever else
SlashAlone(text) ==
    /\ Len(text) >= 1
    /\ text[1] = Ch("/")
    /\ Len(text) >= 2 => text[2] = Ch(" ")

\* C39: for the text '/' alone, or '/' followed by whitespace and further
\* tokens, parse_command returns the empty string as the command name, and
\* process_command treats the text as no command: it returns True, sends
\* nothing (no 'unknown command' reply) and leaves the roster unchanged.
C39_SlashAloneIgnored ==
    (Routed /\ SlashAlone(Request.text)) =>
        /\ parse_command(Request.text).command = Some(<<>>)
        /\ pc = "done"
        /\ result = Some(TRUE)
        /\ ~exc
        /\ BotSends = <<>>
        /\ StoreCalls = <<>>
        /\ roster = RosterBefore

\* '/ start' from chat 1 has been served: nothing was sent, chat 1 is not
\* subscribed.
C39_Witness ==
    /\ Served
    /\ inbound = [chat_id |-> 1, text |-> Str("/ start")]
    /\ parse_command(inbound.text).args = <<Str("start")>>
    /\ result = Some(TRUE)
    /\ BotSends = <<>>
    /\ roster = <<2>>

====
